---- MODULE Spec2Model ----
(***************************************************************************)
(* The GPU ring-bandwidth harness of the HIP examples: mpigpuawarering.c   *)
(* (direct accelerator buffers through GPU-aware MPI), mpigpuring.c        *)
(* (host-staged MPI) and rcclring.c (RCCL grouped send/receive on a        *)
(* stream).  One host process per rank; the transport (MPI point-to-point  *)
(* matching, the RCCL stream, the barrier and the gather) is modelled by   *)
(* separate steps that run concurrently with the hosts.                    *)
(*                                                                         *)
(* Sizes are kept in units of 2^20 bytes (2^20 elements for counts): every *)
(* size the loop visits is a power of two >= 2^26, so the division by      *)
(* sizeof(double) and the comparison with INT_MAX are exact in this unit.  *)
(* A buffer is represented by the value all of its elements hold.          *)
(***************************************************************************)
EXTENDS Integers, Sequences, FiniteSets, TLC

\* ---------------------------------------------------------------- bounds
MaxP == 3          \* largest group size explored by Spec
FullP == 2         \* largest group size explored with the shipped eight-step build
WideP == 4         \* largest group size explored by SpecWide (one-step builds)
MaxRing == 8       \* largest group size explored by SpecTopo
EagerCap == 2      \* messages per channel the transport may hold for a sender that has moved on
EnvP == 2          \* largest group size explored by SpecEnv
MaxNodes == 2      \* nodes the ranks of SpecEnv are placed on
MaxDevices == 2    \* accelerators a node of SpecEnv may show (0 .. MaxDevices)
StallP == 3        \* largest group size explored by SpecStall
SelectP == 3       \* largest group size explored by SpecSelect
MaxArray == 17     \* largest ARRAY_SIZE explored by SpecReduce
MaxRuns == 3       \* runs of fftpoisson3d explored by SpecWisdom

\* ------------------------------------------------------- program constants
MIN_MSG_SIZE == 64        \* (1LL << 26) bytes, in MiB
MAX_MSG_SIZE == 8192      \* (1LL << 33) bytes, in MiB
N_REPEAT == 10
N_WARMUP == 2
SIZEOF_DOUBLE == 8
INT_MAX == 2047           \* floor((2^31 - 1) / 2^20): count > INT_MAX in elements
                          \* iff count / 2^20 > 2047 for counts that are multiples of 2^20
INT_RANGE == 4096         \* 2^32 / 2^20: the values an int distinguishes, in the same unit
SIZE_T_BITS == 64         \* width of size_t msg_size
UNIT_BITS == 20           \* log2 of the unit sizes are kept in
THREADS_PER_BLOCK == 2    \* vectorreduction.cpp has 256; any power of two reduces alike
MS_PER_S == 1000          \* the 1.0e-3 of rcclring.c: milliseconds in a second

Variants == {"mpigpuawarering", "mpigpuring", "rcclring"}

\* Build-time configurations (the "Configuration" macros): the shipped one,
\* shorter ones ending at the shipped maximum, and one whose largest size has
\* more than INT_MAX elements.
Shipped  == [min |-> MIN_MSG_SIZE, max |-> MAX_MSG_SIZE]
TwoStep  == [min |-> MAX_MSG_SIZE \div 2, max |-> MAX_MSG_SIZE]
OneStep  == [min |-> MAX_MSG_SIZE, max |-> MAX_MSG_SIZE]
Oversize == [min |-> MAX_MSG_SIZE, max |-> 2 * MAX_MSG_SIZE]

NULL == -1                \* no buffer
Garbage == 0              \* allocated, never written

VARIABLES
    variant,      \* which of the three programs runs
    world_size,   \* MPI_Comm_size
    cfg,          \* MIN_MSG_SIZE / MAX_MSG_SIZE of the build
    walk,         \* SpecTopo: a walk along next() from one rank
    job,          \* "running" | "aborted" (MPI_Abort is job-wide)
    pc,           \* host position of every rank
    msg_size,     \* loop variable of the size loop
    rep,          \* loop variable of the warm-up / timed loop
    d_send, d_recv, h_send, h_recv,
    reqRecv, reqSend,   \* "null" | "posted" | "done": the two outstanding operations
    chan,         \* chan[r]: messages r has sent that are not yet received
    stream,       \* rcclring: groups enqueued on the stream, oldest first
    barCount,     \* number of MPI_Barrier calls entered
    total_time,   \* timing accumulator
    send0, recv0, bw,
    gath,         \* gath[r]: contributions of r to MPI_Gather not yet taken by the root
    all_res,      \* root: the gathered arrays
    out,          \* out[r]: lines printed to stdout by r
    err,          \* lines printed to stderr, job-wide
    env,          \* the machine: the node of every rank, the accelerators a node shows
    host_rank,    \* MPI variants: rank in the node-local communicator
    num_devices,  \* result of hipGetDeviceCount
    device,       \* argument of the successful hipSetDevice, NULL before
    id,           \* rcclring: the ncclUniqueId each rank holds
    bcast,        \* rcclring: the value MPI_Bcast carries once the root has called it
    uid_made,     \* rcclring: ranks that have called ncclGetUniqueId
    comm,         \* rcclring: the communicator of each rank
    hstream,      \* rcclring: the stream handle of each rank
    failed,       \* failed[r]: the kind of call of r that reported an error, or "none"
    live,         \* live[r]: buffers r has allocated and not freed
    phase_log,    \* phase_log[r]: phases r has entered in its current size step
    round_log,    \* round_log[r]: calls r has made in its current timed round
    stall,        \* the place where one process hangs for good, if any
    clock,        \* the elapsed times one round can be measured to take, in ticks
    \* vectorreduction.cpp
    array_size,   \* ARRAY_SIZE of the build
    d_partial,    \* the partial sums on the device
    vr_s,         \* s: the number of partial sums still to be reduced
    kernel,       \* the block_reduce launch in flight: its input, size and grid
    loaded,       \* loaded[b][t]: how many of its two loads thread t of block b has done
    sdata,        \* sdata[b][t]: the running sum of thread t of block b
    written,      \* blocks of the launch that have stored their sum
    gpu_sum,
    vr_pc,        \* host position of vectorreduction
    stale,        \* a block has read an element another block of the launch had overwritten
    \* fftpoisson3d.cpp
    files,        \* the wisdom files in the working directory, with the grid that wrote each
    past,         \* the completed runs, oldest first
    Nx, Ny, Nz,   \* the grid of the run in progress
    wisdom_loaded,
    fft_pc        \* position of the run in progress, "shell" between runs

vars == << variant, world_size, cfg, walk, job, pc, msg_size, rep, d_send, d_recv,
           h_send, h_recv, reqRecv, reqSend, chan, stream, barCount,
           total_time, send0, recv0, bw, gath, all_res, out, err,
           env, host_rank, num_devices, device, id, bcast, uid_made, comm, hstream,
           failed, live, phase_log, round_log, stall, clock,
           array_size, d_partial, vr_s, kernel, loaded, sdata, written, gpu_sum,
           vr_pc, stale, files, past, Nx, Ny, Nz, wisdom_loaded, fft_pc >>

\* What the program sets up before the size loop, and the failure it records.
setupVars == << env, host_rank, num_devices, device, id, bcast, uid_made, comm,
                hstream, failed >>
\* The state of vectorreduction.cpp and of fftpoisson3d.cpp, which the ring
\* programs never touch, and the two inputs of the environment.
redVars  == << array_size, d_partial, vr_s, kernel, loaded, sdata, written, gpu_sum,
               vr_pc, stale >>
fftVars  == << files, past, Nx, Ny, Nz, wisdom_loaded, fft_pc >>
otherVars == << stall, clock, redVars, fftVars >>
cfgVars  == << variant, world_size, cfg, walk, setupVars, otherVars >>
bufVars  == << d_send, d_recv, h_send, h_recv, live >>
logVars  == << phase_log, round_log >>
netVars  == << reqRecv, reqSend, chan, stream >>
resVars  == << send0, recv0, bw, gath, all_res >>
ioVars   == << out, err >>

Ranks == 0 .. (world_size - 1)

\* The % of C: the quotient truncates toward zero, so the remainder takes the
\* sign of the dividend.
CMod(a, b) == IF a >= 0 THEN a % b ELSE 0 - ((0 - a) % b)

\* Mutant: the successor without the wrap-around.
nextNoWrap(world_rank, size) == world_rank + 1
next(world_rank, size) == CMod(world_rank + 1, size)

\* Mutant: the predecessor without "+ world_size"; rank 0 gets -1.
prevNoOffset(world_rank, size) == CMod(world_rank - 1, size)
prev(world_rank, size) == CMod(world_rank - 1 + size, size)

IsMPI == variant \in {"mpigpuawarering", "mpigpuring"}

count(size) == size \div SIZEOF_DOUBLE

\* Mutant: the limit is half of INT_MAX.
TooLargeHalf(cnt) == cnt > INT_MAX \div 2
\* Mutant: the size check never fires.
TooLargeNever(cnt) == FALSE
\* if (count > INT_MAX)
TooLarge(cnt) == cnt > INT_MAX

\* const int mpi_count = (int)count: the low 32 bits, read as a signed int.
mpi_count(cnt) ==
    LET low == cnt % INT_RANGE
    IN  IF low > INT_MAX THEN low - INT_RANGE ELSE low

\* Mutant: the payload is the rank itself.
InitValueRank(world_rank) == world_rank
\* h_init[i] = (double)(world_rank + 1)
InitValue(world_rank) == world_rank + 1

\* A double, kept as the exact quotient num / den of two integers: den = 0
\* with num > 0 is the +inf an IEEE division by zero gives.  Rounding is not
\* modelled.
Rat(n, d) == [num |-> n, den |-> d]

\* Mutant: the millisecond total of rcclring is taken for seconds.
avg_timeNoScale(total) == Rat(total, N_REPEAT)
\* avg_time = total_time / N_REPEAT, in seconds; in rcclring.c
\* avg_s = ((double)total_ms / N_REPEAT) * 1.0e-3.
avg_time(total) ==
    IF IsMPI THEN Rat(total, N_REPEAT) ELSE Rat(total, N_REPEAT * MS_PER_S)

\* bw_GBps = (2.0 * (double)msg_size / avg_time) * 1.0e-9.  The size being kept
\* in MiB, the quotient is in MiB/s; the constant factor to GB/s is left out.
bw_GBps(size, total) ==
    LET avg == avg_time(total) IN Rat(2 * size * avg.den, avg.num)

NoWalk == [start |-> 0, cur |-> 0, steps |-> 0, seen |-> {}]

\* MPI_Wtime() - t0, or the ms of hipEventElapsedTime: one of the values the
\* clock of the run can give.
Samples == clock
UnitClock == {1}

\* No process hangs.
NoStall == [rank |-> NULL, size |-> 0, rnd |-> 0, at |-> "none"]

\* vectorreduction.cpp and fftpoisson3d.cpp before they are started.
NoKernel == [input |-> "none", size |-> 0, grid |-> 0]
ReductionIdle ==
    /\ array_size = 0
    /\ d_partial = << >>
    /\ vr_s = 0
    /\ kernel = NoKernel
    /\ loaded = << >>
    /\ sdata = << >>
    /\ written = {}
    /\ gpu_sum = 0
    /\ vr_pc = "off"
    /\ stale = FALSE
WisdomIdle ==
    /\ files = {}
    /\ past = << >>
    /\ Nx = 0 /\ Ny = 0 /\ Nz = 0
    /\ wisdom_loaded = FALSE
    /\ fft_pc = "shell"

\* The ring programs run alone, every process keeps running, and every round
\* is measured to take one tick.
RingAlone ==
    /\ stall = NoStall
    /\ clock = UnitClock
    /\ ReductionIdle
    /\ WisdomIdle

\* --------------------------------------------------------------- the machine
\* The documented run: one node showing one accelerator per rank.
OneNode(n) == [node |-> [r \in 0 .. (n - 1) |-> 0], devices |-> n]

\* MPI_Comm_split_type(MPI_COMM_WORLD, MPI_COMM_TYPE_SHARED, 0, ...) followed by
\* MPI_Comm_rank(host_comm, &host_rank): the ranks of one node, numbered in the
\* order of their world ranks (the key is 0 for all of them).
LocalRank(e, r) == Cardinality({q \in 0 .. (r - 1) : e.node[q] = e.node[r]})

\* The value ncclGetUniqueId() hands to the rank that calls it.
UniqueId(r) == [by |-> r]
NoId == [by |-> NULL]          \* ncclUniqueId id; not yet written

NoHandle == [state |-> "none", made |-> 0, freed |-> 0]
LiveHandle == [state |-> "live", made |-> 1, freed |-> 0]

\* The argument of hipSetDevice: host_rank % num_devices in the two MPI programs,
\* world_rank % num_devices in rcclring.c.
DeviceIndex(r, local, n) == CMod(IF IsMPI THEN local ELSE r, n)

\* Everything main() sets up before the header, on machine e, once every rank
\* has got through it.
Ready(e) ==
    /\ env = e
    /\ host_rank = [r \in Ranks |-> IF IsMPI THEN LocalRank(e, r) ELSE 0]
    /\ num_devices = [r \in Ranks |-> e.devices]
    /\ device = [r \in Ranks |->
                   DeviceIndex(r, IF IsMPI THEN LocalRank(e, r) ELSE 0, e.devices)]
    /\ id = [r \in Ranks |-> IF IsMPI THEN NoId ELSE UniqueId(0)]
    /\ bcast = IF IsMPI THEN NoId ELSE UniqueId(0)
    /\ uid_made = IF IsMPI THEN {} ELSE {0}
    /\ comm = [r \in Ranks |-> IF IsMPI THEN NoHandle ELSE LiveHandle]
    /\ hstream = [r \in Ranks |-> IF IsMPI THEN NoHandle ELSE LiveHandle]

\* The locals of main() before the header is printed.
Locals ==
    /\ job = "running"
    /\ failed = [r \in Ranks |-> "none"]
    /\ msg_size = [r \in Ranks |-> 0]
    /\ rep = [r \in Ranks |-> 0]
    /\ d_send = [r \in Ranks |-> NULL]
    /\ d_recv = [r \in Ranks |-> NULL]
    /\ h_send = [r \in Ranks |-> NULL]
    /\ h_recv = [r \in Ranks |-> NULL]
    /\ reqRecv = [r \in Ranks |-> "null"]
    /\ reqSend = [r \in Ranks |-> "null"]
    /\ chan = [r \in Ranks |-> << >>]
    /\ stream = [r \in Ranks |-> << >>]
    /\ barCount = [r \in Ranks |-> 0]
    /\ total_time = [r \in Ranks |-> 0]
    /\ send0 = [r \in Ranks |-> 0]
    /\ recv0 = [r \in Ranks |-> 0]
    /\ bw = [r \in Ranks |-> Rat(0, 1)]
    /\ gath = [r \in Ranks |-> << >>]
    /\ all_res = << >>
    /\ out = [r \in Ranks |-> << >>]
    /\ err = << >>
    /\ live = [r \in Ranks |-> [dev |-> 0, host |-> 0]]
    /\ phase_log = [r \in Ranks |-> << >>]
    /\ round_log = [r \in Ranks |-> << >>]

\* The state after MPI_Init, MPI_Comm_rank and MPI_Comm_size, with the set-up
\* of the accelerator (and of the RCCL communicator) done on every rank.
Start ==
    /\ pc = [r \in Ranks |-> "header"]
    /\ Locals
    /\ Ready(OneNode(world_size))

Init ==
    /\ variant \in Variants
    /\ world_size \in 1 .. MaxP
    /\ cfg \in {TwoStep, Oversize} \cup (IF world_size <= FullP THEN {Shipped} ELSE {})
    /\ walk = NoWalk
    /\ Start
    /\ RingAlone

InitWide ==
    /\ variant \in Variants
    /\ world_size \in 1 .. WideP
    /\ cfg \in {OneStep, Oversize}
    /\ walk = NoWalk
    /\ Start
    /\ RingAlone

\* The process hangs for good once it is at the place stall names: in round
\* stall.rnd of the step of size stall.size, about to make the call stall.at.
Stalled(r) ==
    /\ stall.rank = r
    /\ msg_size[r] = stall.size
    /\ rep[r] = stall.rnd
    /\ pc[r] = stall.at

Running(r, at) == job = "running" /\ pc[r] = at /\ ~ Stalled(r)

\* The record of what a step of rank r does: the phases of the size step it
\* enters and the calls it makes inside the timed round.
Log(r, phases, calls) ==
    /\ phase_log' = [phase_log EXCEPT ![r] = @ \o phases]
    /\ round_log' = [round_log EXCEPT ![r] = @ \o calls]

\* printf of the header by rank 0, and the initialisation of the size loop.
Header(r) ==
    /\ Running(r, "header")
    /\ out' = IF r = 0
                THEN [out EXCEPT ![r] = Append(@, [kind |-> "header",
                                         groups |-> [i \in 1 .. world_size |-> i - 1]])]
                ELSE out
    /\ msg_size' = [msg_size EXCEPT ![r] = cfg.min]
    /\ pc' = [pc EXCEPT ![r] = "loop"]
    /\ UNCHANGED logVars
    /\ UNCHANGED << cfgVars, job, rep, bufVars, netVars, barCount, total_time,
                    resVars, err >>

\* for (...; msg_size <= MAX_MSG_SIZE; ...)
LoopTest(r) ==
    /\ Running(r, "loop")
    /\ pc' = [pc EXCEPT ![r] = IF msg_size[r] <= cfg.max THEN "check" ELSE "finalize"]
    /\ UNCHANGED logVars
    /\ UNCHANGED << cfgVars, job, msg_size, rep, bufVars, netVars, barCount,
                    total_time, resVars, ioVars >>

\* if (count > INT_MAX) { fprintf(stderr, ...); MPI_Abort(MPI_COMM_WORLD, -1); }
CountCheck(r) ==
    /\ Running(r, "check")
    /\ IF TooLarge(count(msg_size[r]))
         THEN /\ err' = Append(err, [kind |-> "too_large", rank |-> r,
                                     elements |-> count(msg_size[r]), errorcode |-> -1])
              /\ job' = "aborted"
              /\ pc' = pc
         ELSE /\ pc' = [pc EXCEPT ![r] = "alloc"]
              /\ UNCHANGED << err, job >>
    /\ UNCHANGED logVars
    /\ UNCHANGED << cfgVars, msg_size, rep, bufVars, netVars, barCount,
                    total_time, resVars, out >>

\* hipMalloc of d_send and d_recv; mpigpuring also mallocs h_send and h_recv.
Allocate(r) ==
    /\ Running(r, "alloc")
    /\ d_send' = [d_send EXCEPT ![r] = Garbage]
    /\ d_recv' = [d_recv EXCEPT ![r] = Garbage]
    /\ IF variant = "mpigpuring"
         THEN /\ h_send' = [h_send EXCEPT ![r] = Garbage]
              /\ h_recv' = [h_recv EXCEPT ![r] = Garbage]
         ELSE UNCHANGED << h_send, h_recv >>
    /\ pc' = [pc EXCEPT ![r] = "init"]
    /\ live' = [live EXCEPT ![r] = [dev |-> @.dev + 2,
                                     host |-> @.host + (IF variant = "mpigpuring" THEN 2 ELSE 0)]]
    /\ phase_log' = [phase_log EXCEPT ![r] = << "allocate" >>]
    /\ round_log' = [round_log EXCEPT ![r] = << >>]
    /\ UNCHANGED << cfgVars, job, msg_size, rep, netVars, barCount, total_time,
                    resVars, ioVars >>

\* Fill the host buffer with world_rank + 1, copy it to d_send, hipDeviceSynchronize.
Initialize(r) ==
    /\ Running(r, "init")
    /\ d_send' = [d_send EXCEPT ![r] = InitValue(r)]
    /\ IF variant = "mpigpuring"
         THEN h_send' = [h_send EXCEPT ![r] = InitValue(r)]
         ELSE UNCHANGED h_send
    /\ rep' = [rep EXCEPT ![r] = 0]
    /\ pc' = [pc EXCEPT ![r] = IF IsMPI THEN "barrier" ELSE "w_loop"]
    /\ Log(r, << "init" >>, << >>)
    /\ UNCHANGED << cfgVars, job, msg_size, d_recv, h_recv, live, netVars, barCount,
                    total_time, resVars, ioVars >>

\* MPI_Barrier(MPI_COMM_WORLD): entering ...
BarrierEnter(r) ==
    /\ Running(r, "barrier")
    /\ barCount' = [barCount EXCEPT ![r] = @ + 1]
    /\ pc' = [pc EXCEPT ![r] = "barrier_wait"]
    /\ Log(r, << "barrier" >>, << >>)
    /\ UNCHANGED << cfgVars, job, msg_size, rep, bufVars, netVars, total_time,
                    resVars, ioVars >>

\* Mutant: the accumulator is declared outside the size loop and never reset.
BarrierExitKeepTotal(r) ==
    /\ Running(r, "barrier_wait")
    /\ \A q \in Ranks : barCount[q] >= barCount[r]
    /\ rep' = [rep EXCEPT ![r] = 0]
    /\ pc' = [pc EXCEPT ![r] = "round"]
    /\ UNCHANGED logVars
    /\ UNCHANGED << cfgVars, job, msg_size, bufVars, netVars, barCount,
                    total_time, resVars, ioVars >>
\* Mutant: the barrier returns without waiting for the other ranks.
BarrierExitNoWait(r) ==
    /\ Running(r, "barrier_wait")
    /\ total_time' = [total_time EXCEPT ![r] = 0]
    /\ rep' = [rep EXCEPT ![r] = 0]
    /\ pc' = [pc EXCEPT ![r] = "round"]
    /\ UNCHANGED logVars
    /\ UNCHANGED << cfgVars, job, msg_size, bufVars, netVars, barCount,
                    resVars, ioVars >>

\* ... and returning once every rank has entered it; then total_time = 0.0.
BarrierExit(r) ==
    /\ Running(r, "barrier_wait")
    /\ \A q \in Ranks : barCount[q] >= barCount[r]
    /\ total_time' = [total_time EXCEPT ![r] = 0]
    /\ rep' = [rep EXCEPT ![r] = 0]
    /\ pc' = [pc EXCEPT ![r] = "round"]
    /\ UNCHANGED logVars
    /\ UNCHANGED << cfgVars, job, msg_size, bufVars, netVars, barCount,
                    resVars, ioVars >>

\* Mutant: the timed loop stops one round early.
RoundBeginShort(r) ==
    /\ Running(r, "round")
    /\ pc' = [pc EXCEPT ![r] =
                IF rep[r] < N_REPEAT - 1
                  THEN (IF variant = "mpigpuring" THEN "d2h" ELSE "irecv")
                  ELSE "verify"]
    /\ IF rep[r] < N_REPEAT - 1
         THEN /\ phase_log' = [phase_log EXCEPT ![r] = Append(@, "timed")]
              /\ round_log' = [round_log EXCEPT ![r] = << "sync", "t0" >>]
         ELSE UNCHANGED logVars
    /\ UNCHANGED << cfgVars, job, msg_size, rep, bufVars, netVars, barCount,
                    total_time, resVars, ioVars >>

\* for (rep < N_REPEAT) { hipDeviceSynchronize(); t0 = MPI_Wtime(); ...
RoundBegin(r) ==
    /\ Running(r, "round")
    /\ pc' = [pc EXCEPT ![r] =
                IF rep[r] < N_REPEAT
                  THEN (IF variant = "mpigpuring" THEN "d2h" ELSE "irecv")
                  ELSE "verify"]
    /\ IF rep[r] < N_REPEAT
         THEN /\ phase_log' = [phase_log EXCEPT ![r] = Append(@, "timed")]
              /\ round_log' = [round_log EXCEPT ![r] = << "sync", "t0" >>]
         ELSE UNCHANGED logVars
    /\ UNCHANGED << cfgVars, job, msg_size, rep, bufVars, netVars, barCount,
                    total_time, resVars, ioVars >>

\* Mutant: the staging copy reads the receive buffer.
CopyD2HFromRecv(r) ==
    /\ Running(r, "d2h")
    /\ h_send' = [h_send EXCEPT ![r] = d_recv[r]]
    /\ pc' = [pc EXCEPT ![r] = "irecv"]
    /\ Log(r, << >>, << "d2h", "sync" >>)
    /\ UNCHANGED << cfgVars, job, msg_size, rep, d_send, d_recv, h_recv, live, netVars,
                    barCount, total_time, resVars, ioVars >>

\* mpigpuring: hipMemcpy(h_send, d_send, DeviceToHost); hipDeviceSynchronize().
CopyD2H(r) ==
    /\ Running(r, "d2h")
    /\ h_send' = [h_send EXCEPT ![r] = d_send[r]]
    /\ pc' = [pc EXCEPT ![r] = "irecv"]
    /\ Log(r, << >>, << "d2h", "sync" >>)
    /\ UNCHANGED << cfgVars, job, msg_size, rep, d_send, d_recv, h_recv, live, netVars,
                    barCount, total_time, resVars, ioVars >>

\* Mutant: the send is addressed to prev instead of next.
MessageToPrev(r, val) ==
    [val |-> val, cnt |-> mpi_count(count(msg_size[r])), dst |-> prev(r, world_size),
     size |-> msg_size[r], rnd |-> rep[r], acked |-> FALSE]

\* The message a send of rank r puts on the wire.
Message(r, val) ==
    [val |-> val, cnt |-> mpi_count(count(msg_size[r])), dst |-> next(r, world_size),
     size |-> msg_size[r], rnd |-> rep[r], acked |-> FALSE]

\* MPI_Irecv(recv buffer, mpi_count, MPI_DOUBLE, prev, 0, MPI_COMM_WORLD, &reqs[0])
Irecv(r) ==
    /\ Running(r, "irecv")
    /\ reqRecv' = [reqRecv EXCEPT ![r] = "posted"]
    /\ pc' = [pc EXCEPT ![r] = "isend"]
    /\ Log(r, << >>, << "irecv" >>)
    /\ UNCHANGED << cfgVars, job, msg_size, rep, bufVars, reqSend, chan, stream, barCount, total_time, resVars, ioVars >>

\* MPI_Isend(send buffer, mpi_count, MPI_DOUBLE, next, 0, MPI_COMM_WORLD, &reqs[1])
Isend(r) ==
    /\ Running(r, "isend")
    /\ reqSend' = [reqSend EXCEPT ![r] = "posted"]
    /\ chan' = [chan EXCEPT ![r] = Append(@,
                  Message(r, IF variant = "mpigpuring" THEN h_send[r] ELSE d_send[r]))]
    /\ pc' = [pc EXCEPT ![r] = "waitall"]
    /\ Log(r, << >>, << "isend" >>)
    /\ UNCHANGED << cfgVars, job, msg_size, rep, bufVars, reqRecv, stream,
                    barCount, total_time, resVars, ioVars >>

\* Mutant: the wait covers the send request only.
WaitallSendOnly(r) ==
    /\ Running(r, "waitall")
    /\ reqSend[r] = "done"
    /\ reqRecv' = [reqRecv EXCEPT ![r] = IF @ = "done" THEN "null" ELSE @]
    /\ reqSend' = [reqSend EXCEPT ![r] = "null"]
    /\ IF variant = "mpigpuring"
         THEN /\ pc' = [pc EXCEPT ![r] = "h2d"]
              /\ UNCHANGED << total_time, rep >>
         ELSE /\ \E dt \in Samples :
                    total_time' = [total_time EXCEPT ![r] = @ + dt]
              /\ rep' = [rep EXCEPT ![r] = @ + 1]
              /\ pc' = [pc EXCEPT ![r] = "round"]
    /\ Log(r, << >>, IF variant = "mpigpuring" THEN << "waitall" >>
                                                   ELSE << "waitall", "sync", "t1" >>)
    /\ UNCHANGED << cfgVars, job, msg_size, bufVars, chan, stream,
                    barCount, resVars, ioVars >>
\* Mutant: the wait returns while the requests are still outstanding.
WaitallNoWait(r) ==
    /\ Running(r, "waitall")
    /\ UNCHANGED << reqRecv, reqSend >>
    /\ IF variant = "mpigpuring"
         THEN /\ pc' = [pc EXCEPT ![r] = "h2d"]
              /\ UNCHANGED << total_time, rep >>
         ELSE /\ \E dt \in Samples :
                    total_time' = [total_time EXCEPT ![r] = @ + dt]
              /\ rep' = [rep EXCEPT ![r] = @ + 1]
              /\ pc' = [pc EXCEPT ![r] = "round"]
    /\ Log(r, << >>, IF variant = "mpigpuring" THEN << "waitall" >>
                                                   ELSE << "waitall", "sync", "t1" >>)
    /\ UNCHANGED << cfgVars, job, msg_size, bufVars, chan, stream,
                    barCount, resVars, ioVars >>

\* MPI_Waitall(2, reqs, ...) returns when both requests are complete; the direct
\* variant then synchronizes and adds MPI_Wtime() - t0 to total_time.
Waitall(r) ==
    /\ Running(r, "waitall")
    /\ reqRecv[r] = "done" /\ reqSend[r] = "done"
    /\ reqRecv' = [reqRecv EXCEPT ![r] = "null"]
    /\ reqSend' = [reqSend EXCEPT ![r] = "null"]
    /\ IF variant = "mpigpuring"
         THEN /\ pc' = [pc EXCEPT ![r] = "h2d"]
              /\ UNCHANGED << total_time, rep >>
         ELSE /\ \E dt \in Samples :
                    total_time' = [total_time EXCEPT ![r] = @ + dt]
              /\ rep' = [rep EXCEPT ![r] = @ + 1]
              /\ pc' = [pc EXCEPT ![r] = "round"]
    /\ Log(r, << >>, IF variant = "mpigpuring" THEN << "waitall" >>
                                                   ELSE << "waitall", "sync", "t1" >>)
    /\ UNCHANGED << cfgVars, job, msg_size, bufVars, chan, stream,
                    barCount, resVars, ioVars >>

\* Mutant: no hipDeviceSynchronize after the copy back to the device.
CopyH2DUnsynced(r) ==
    /\ Running(r, "h2d")
    /\ d_recv' = [d_recv EXCEPT ![r] = h_recv[r]]
    /\ \E dt \in Samples : total_time' = [total_time EXCEPT ![r] = @ + dt]
    /\ rep' = [rep EXCEPT ![r] = @ + 1]
    /\ pc' = [pc EXCEPT ![r] = "round"]
    /\ Log(r, << >>, << "h2d", "t1" >>)
    /\ UNCHANGED << cfgVars, job, msg_size, d_send, h_send, h_recv, live, netVars,
                    barCount, resVars, ioVars >>

\* mpigpuring: hipMemcpy(d_recv, h_recv, HostToDevice); hipDeviceSynchronize();
\* total_time += MPI_Wtime() - t0.
CopyH2D(r) ==
    /\ Running(r, "h2d")
    /\ d_recv' = [d_recv EXCEPT ![r] = h_recv[r]]
    /\ \E dt \in Samples : total_time' = [total_time EXCEPT ![r] = @ + dt]
    /\ rep' = [rep EXCEPT ![r] = @ + 1]
    /\ pc' = [pc EXCEPT ![r] = "round"]
    /\ Log(r, << >>, << "h2d", "sync", "t1" >>)
    /\ UNCHANGED << cfgVars, job, msg_size, d_send, h_send, h_recv, live, netVars,
                    barCount, resVars, ioVars >>

\* ------------------------------------------------------------ rcclring host

\* Mutant: ncclSend is called before ncclRecv.
RingGroupSendFirst(r) ==
    << [op |-> "send", buf |-> "d_send", peer |-> next(r, world_size),
        cnt |-> count(msg_size[r])],
       [op |-> "recv", buf |-> "d_recv", peer |-> prev(r, world_size),
        cnt |-> count(msg_size[r])] >>

\* The group one round submits: ncclGroupStart(); ncclRecv(d_recv, count, ncclDouble,
\* prev, comm, stream); ncclSend(d_send, count, ncclDouble, next, comm, stream);
\* ncclGroupEnd().  The calls inside the group only record the operations, in
\* call order; ncclGroupEnd() enqueues them on the stream as one unit and returns.
RingGroup(r) ==
    << [op |-> "recv", buf |-> "d_recv", peer |-> prev(r, world_size),
        cnt |-> count(msg_size[r])],
       [op |-> "send", buf |-> "d_send", peer |-> next(r, world_size),
        cnt |-> count(msg_size[r])] >>

\* for (i < N_WARMUP) { the group }: one warm-up round, not waited for.
WarmupRound(r) ==
    /\ Running(r, "w_loop")
    /\ IF rep[r] < N_WARMUP
         THEN /\ stream' = [stream EXCEPT ![r] = Append(@,
                              [ops |-> RingGroup(r), size |-> msg_size[r], rnd |-> rep[r],
                               timed |-> FALSE])]
              /\ rep' = [rep EXCEPT ![r] = @ + 1]
              /\ pc' = pc
         ELSE /\ pc' = [pc EXCEPT ![r] = "w_sync"]
              /\ UNCHANGED << stream, rep >>
    /\ Log(r, IF rep[r] < N_WARMUP THEN << "warmup" >> ELSE << >>, << >>)
    /\ UNCHANGED << cfgVars, job, msg_size, bufVars, reqRecv, reqSend, chan,
                    barCount, total_time, resVars, ioVars >>

\* Mutant: the host does not wait for the warm-up groups.
WarmupSyncNoWait(r) ==
    /\ Running(r, "w_sync")
    /\ total_time' = [total_time EXCEPT ![r] = 0]
    /\ rep' = [rep EXCEPT ![r] = 0]
    /\ pc' = [pc EXCEPT ![r] = "t_loop"]
    /\ UNCHANGED logVars
    /\ UNCHANGED << cfgVars, job, msg_size, bufVars, netVars, barCount,
                    resVars, ioVars >>

\* hipStreamSynchronize(stream) after the warm-up loop; total_ms = 0.0f and the
\* two events are created.
WarmupSync(r) ==
    /\ Running(r, "w_sync")
    /\ stream[r] = << >>
    /\ total_time' = [total_time EXCEPT ![r] = 0]
    /\ rep' = [rep EXCEPT ![r] = 0]
    /\ pc' = [pc EXCEPT ![r] = "t_loop"]
    /\ UNCHANGED logVars
    /\ UNCHANGED << cfgVars, job, msg_size, bufVars, netVars, barCount,
                    resVars, ioVars >>

\* for (rep < N_REPEAT) { hipEventRecord(start, stream); the group;
\* hipEventRecord(stop, stream); ...  and, after the loop, hipDeviceSynchronize().
TimedRound(r) ==
    /\ Running(r, "t_loop")
    /\ IF rep[r] < N_REPEAT
         THEN /\ stream' = [stream EXCEPT ![r] = Append(@,
                              [ops |-> RingGroup(r), size |-> msg_size[r], rnd |-> rep[r],
                               timed |-> TRUE])]
              /\ pc' = [pc EXCEPT ![r] = "t_sync"]
         ELSE /\ stream[r] = << >>
              /\ UNCHANGED stream
              /\ pc' = [pc EXCEPT ![r] = "verify"]
    /\ IF rep[r] < N_REPEAT
         THEN /\ phase_log' = [phase_log EXCEPT ![r] = Append(@, "timed")]
              /\ round_log' = [round_log EXCEPT ![r] =
                                  << "record_start", "group", "record_stop" >>]
         ELSE UNCHANGED logVars
    /\ UNCHANGED << cfgVars, job, msg_size, rep, bufVars, reqRecv, reqSend, chan,
                    barCount, total_time, resVars, ioVars >>

\* hipEventSynchronize(stop); hipEventElapsedTime(&ms, start, stop); total_ms += ms.
TimedSync(r) ==
    /\ Running(r, "t_sync")
    /\ stream[r] = << >>
    /\ \E dt \in Samples : total_time' = [total_time EXCEPT ![r] = @ + dt]
    /\ rep' = [rep EXCEPT ![r] = @ + 1]
    /\ pc' = [pc EXCEPT ![r] = "t_loop"]
    /\ Log(r, << >>, << "event_sync", "elapsed" >>)
    /\ UNCHANGED << cfgVars, job, msg_size, bufVars, netVars, barCount,
                    resVars, ioVars >>

\* ------------------------------------------------------- verify and report

\* hipMemcpy of the first elements to send0 / recv0; avg and bw_GBps.
Verify(r) ==
    /\ Running(r, "verify")
    /\ send0' = [send0 EXCEPT ![r] = d_send[r]]
    /\ recv0' = [recv0 EXCEPT ![r] = d_recv[r]]
    /\ bw' = [bw EXCEPT ![r] = bw_GBps(msg_size[r], total_time[r])]
    /\ pc' = [pc EXCEPT ![r] = "gather"]
    /\ Log(r, << "verify" >>, << >>)
    /\ UNCHANGED << cfgVars, job, msg_size, rep, bufVars, netVars, barCount,
                    total_time, gath, all_res, ioVars >>

\* Mutant: the two samples are handed over in each other's place.
TripleSwapped(r) == [bw |-> bw[r], send0 |-> recv0[r], recv0 |-> send0[r]]
Triple(r) == [bw |-> bw[r], send0 |-> send0[r], recv0 |-> recv0[r]]

\* Mutant: the root gives up waiting and reports what has arrived.
GatherPartial(r) ==
    /\ Running(r, "gather")
    /\ IF r = 0
         THEN /\ all_res' = [i \in 1 .. world_size |->
                               IF i = 1 \/ gath[i - 1] = << >>
                                 THEN Triple(0) ELSE Head(gath[i - 1])]
              /\ gath' = [q \in Ranks |->
                            IF q = 0 \/ gath[q] = << >> THEN gath[q] ELSE Tail(gath[q])]
         ELSE /\ gath' = [gath EXCEPT ![r] = Append(@, Triple(r))]
              /\ UNCHANGED all_res
    /\ pc' = [pc EXCEPT ![r] = "print"]
    /\ Log(r, << "aggregate" >>, << >>)
    /\ UNCHANGED << cfgVars, job, msg_size, rep, bufVars, netVars, barCount,
                    total_time, send0, recv0, bw, ioVars >>
\* The three MPI_Gather calls to root 0: a non-root hands over its values and
\* returns; the root returns once every rank's values have arrived.
Gather(r) ==
    /\ Running(r, "gather")
    /\ IF r = 0
         THEN /\ \A q \in Ranks \ {0} : gath[q] # << >>
              /\ all_res' = [i \in 1 .. world_size |->
                               IF i = 1 THEN Triple(0) ELSE Head(gath[i - 1])]
              /\ gath' = [q \in Ranks |-> IF q = 0 THEN gath[q] ELSE Tail(gath[q])]
         ELSE /\ gath' = [gath EXCEPT ![r] = Append(@, Triple(r))]
              /\ UNCHANGED all_res
    /\ pc' = [pc EXCEPT ![r] = "print"]
    /\ Log(r, << "aggregate" >>, << >>)
    /\ UNCHANGED << cfgVars, job, msg_size, rep, bufVars, netVars, barCount,
                    total_time, send0, recv0, bw, ioVars >>

\* Mutant: the row is printed without the test for rank 0.
PrintRowAll(r) ==
    /\ Running(r, "print")
    /\ out' = [out EXCEPT ![r] = Append(@, [kind |-> "row",
                       size |-> msg_size[r], groups |-> all_res])]
    /\ all_res' = IF r = 0 THEN << >> ELSE all_res
    /\ pc' = [pc EXCEPT ![r] = "release"]
    /\ UNCHANGED logVars
    /\ UNCHANGED << cfgVars, job, msg_size, rep, bufVars, netVars, barCount,
                    total_time, send0, recv0, bw, gath, err >>

\* if (world_rank == 0) { printf of the row; free of the gathered arrays }
PrintRow(r) ==
    /\ Running(r, "print")
    /\ IF r = 0
         THEN /\ out' = [out EXCEPT ![r] = Append(@, [kind |-> "row",
                                 size |-> msg_size[r], groups |-> all_res])]
              /\ all_res' = << >>
         ELSE UNCHANGED << out, all_res >>
    /\ pc' = [pc EXCEPT ![r] = "release"]
    /\ UNCHANGED logVars
    /\ UNCHANGED << cfgVars, job, msg_size, rep, bufVars, netVars, barCount,
                    total_time, send0, recv0, bw, gath, err >>

\* The position of the highest set bit.
RECURSIVE Log2(_)
Log2(n) == IF n <= 1 THEN 0 ELSE 1 + Log2(n \div 2)

\* Mutant: the loop variable is 32 bits wide.
ShiftLeft32(size) ==
    IF Log2(size) + UNIT_BITS + 1 >= 32 THEN 0 ELSE 2 * size
\* msg_size <<= 1 on a size_t holding a power of two: the value doubles, or
\* becomes 0 when the set bit is shifted out of the SIZE_T_BITS bits.
ShiftLeft(size) ==
    IF Log2(size) + UNIT_BITS + 1 >= SIZE_T_BITS THEN 0 ELSE 2 * size
\* Mutant: the buffers go out of scope without being freed.
ReleaseLeak(r) ==
    /\ Running(r, "release")
    /\ d_send' = [d_send EXCEPT ![r] = NULL]
    /\ d_recv' = [d_recv EXCEPT ![r] = NULL]
    /\ h_send' = [h_send EXCEPT ![r] = NULL]
    /\ h_recv' = [h_recv EXCEPT ![r] = NULL]
    /\ msg_size' = [msg_size EXCEPT ![r] = ShiftLeft(@)]
    /\ pc' = [pc EXCEPT ![r] = "loop"]
    /\ UNCHANGED live
    /\ Log(r, << "release" >>, << >>)
    /\ UNCHANGED << cfgVars, job, rep, netVars, barCount, total_time,
                    resVars, ioVars >>

\* hipFree of both device buffers (mpigpuring: free of both host buffers), and
\* msg_size <<= 1.
Release(r) ==
    /\ Running(r, "release")
    /\ d_send' = [d_send EXCEPT ![r] = NULL]
    /\ d_recv' = [d_recv EXCEPT ![r] = NULL]
    /\ h_send' = [h_send EXCEPT ![r] = NULL]
    /\ h_recv' = [h_recv EXCEPT ![r] = NULL]
    /\ msg_size' = [msg_size EXCEPT ![r] = ShiftLeft(@)]
    /\ pc' = [pc EXCEPT ![r] = "loop"]
    /\ live' = [live EXCEPT ![r] = [dev |-> @.dev - 2,
                                     host |-> @.host - (IF variant = "mpigpuring" THEN 2 ELSE 0)]]
    /\ Log(r, << "release" >>, << >>)
    /\ UNCHANGED << cfgVars, job, rep, netVars, barCount, total_time,
                    resVars, ioVars >>

\* ncclCommDestroy(comm) / hipStreamDestroy(stream).
Destroyed(h) == [state |-> "destroyed", made |-> h.made, freed |-> h.freed + 1]

\* rcclring: ncclCommDestroy(comm); hipStreamDestroy(stream).  The MPI programs:
\* MPI_Comm_free(&host_comm).  Then MPI_Finalize(); return.
Finalize(r) ==
    /\ Running(r, "finalize")
    /\ IF IsMPI
         THEN UNCHANGED << comm, hstream >>
         ELSE /\ comm' = [comm EXCEPT ![r] = Destroyed(@)]
              /\ hstream' = [hstream EXCEPT ![r] = Destroyed(@)]
    /\ pc' = [pc EXCEPT ![r] = "done"]
    /\ UNCHANGED logVars
    /\ UNCHANGED << otherVars, variant, world_size, cfg, walk, env, host_rank, num_devices,
                    device, id, bcast, uid_made, failed >>
    /\ UNCHANGED << job, msg_size, rep, bufVars, netVars, barCount,
                    total_time, resVars, ioVars >>

\* ---------------------------------------------------------------- transport

HasOp(g, o) == \E i \in 1 .. Len(g.ops) : g.ops[i].op = o
TheOp(g, o) == g.ops[CHOOSE i \in 1 .. Len(g.ops) : g.ops[i].op = o]

\* rcclring: the stream starts its oldest group once the previous one is
\* finished; the group's receive and send become outstanding together.
StreamLaunch(r) ==
    /\ job = "running" /\ variant = "rcclring"
    /\ stream[r] # << >>
    /\ reqRecv[r] = "null" /\ reqSend[r] = "null"
    /\ LET g == Head(stream[r]) IN
         /\ reqRecv' = [reqRecv EXCEPT ![r] = IF HasOp(g, "recv") THEN "posted" ELSE "done"]
         /\ reqSend' = [reqSend EXCEPT ![r] = IF HasOp(g, "send") THEN "posted" ELSE "done"]
         /\ chan' = IF HasOp(g, "send")
                      THEN [chan EXCEPT ![r] = Append(@,
                              [val |-> d_send[r], cnt |-> TheOp(g, "send").cnt,
                               dst |-> TheOp(g, "send").peer, size |-> g.size,
                               rnd |-> g.rnd, acked |-> FALSE])]
                      ELSE chan
    /\ UNCHANGED logVars
    /\ UNCHANGED << cfgVars, job, pc, msg_size, rep, bufVars, stream,
                    barCount, total_time, resVars, ioVars >>

\* rcclring: a group whose receive and send are both complete leaves the stream.
GroupComplete(r) ==
    /\ job = "running" /\ variant = "rcclring"
    /\ stream[r] # << >>
    /\ reqRecv[r] = "done" /\ reqSend[r] = "done"
    /\ stream' = [stream EXCEPT ![r] = Tail(@)]
    /\ reqRecv' = [reqRecv EXCEPT ![r] = "null"]
    /\ reqSend' = [reqSend EXCEPT ![r] = "null"]
    /\ UNCHANGED logVars
    /\ UNCHANGED << cfgVars, job, pc, msg_size, rep, bufVars, chan,
                    barCount, total_time, resVars, ioVars >>

\* Mutant: the receive is matched with the newest message from prev(r).
DeliverNewest(r) ==
    /\ job = "running"
    /\ reqRecv[r] = "posted"
    /\ LET s == prev(r, world_size) IN
         /\ chan[s] # << >>
         /\ LET m == chan[s][Len(chan[s])] IN
              /\ m.dst = r
              /\ IF variant = "mpigpuring"
                   THEN /\ h_recv' = [h_recv EXCEPT ![r] = m.val]
                        /\ UNCHANGED d_recv
                   ELSE /\ d_recv' = [d_recv EXCEPT ![r] = m.val]
                        /\ UNCHANGED h_recv
              /\ reqRecv' = [reqRecv EXCEPT ![r] = "done"]
              /\ reqSend' = IF m.acked THEN reqSend ELSE [reqSend EXCEPT ![s] = "done"]
              /\ chan' = [chan EXCEPT ![s] = SubSeq(@, 1, Len(@) - 1)]
    /\ UNCHANGED logVars
    /\ UNCHANGED << cfgVars, job, pc, msg_size, rep, d_send, h_send, live, stream,
                    barCount, total_time, resVars, ioVars >>
\* The oldest message from prev(r) is matched with the receive r has posted:
\* the data lands in r's receive buffer, the receive completes, and so does the
\* send unless it already completed eagerly.
Deliver(r) ==
    /\ job = "running"
    /\ reqRecv[r] = "posted"
    /\ LET s == prev(r, world_size) IN
         /\ chan[s] # << >>
         /\ LET m == Head(chan[s]) IN
              /\ m.dst = r
              /\ IF variant = "mpigpuring"
                   THEN /\ h_recv' = [h_recv EXCEPT ![r] = m.val]
                        /\ UNCHANGED d_recv
                   ELSE /\ d_recv' = [d_recv EXCEPT ![r] = m.val]
                        /\ UNCHANGED h_recv
              /\ reqRecv' = [reqRecv EXCEPT ![r] = "done"]
              /\ reqSend' = IF m.acked THEN reqSend ELSE [reqSend EXCEPT ![s] = "done"]
              /\ chan' = [chan EXCEPT ![s] = Tail(@)]
    /\ UNCHANGED logVars
    /\ UNCHANGED << cfgVars, job, pc, msg_size, rep, d_send, h_send, live, stream,
                    barCount, total_time, resVars, ioVars >>

Buffered(r) == Cardinality({i \in 1 .. Len(chan[r]) : chan[r][i].acked})

\* The transport copies the outstanding message of r into its own buffers, so
\* the send completes before the receiver has taken it.
EagerComplete(r) ==
    /\ job = "running"
    /\ reqSend[r] = "posted"
    /\ chan[r] # << >>
    /\ ~ chan[r][Len(chan[r])].acked
    /\ Buffered(r) < EagerCap
    /\ chan' = [chan EXCEPT ![r][Len(chan[r])].acked = TRUE]
    /\ reqSend' = [reqSend EXCEPT ![r] = "done"]
    /\ UNCHANGED logVars
    /\ UNCHANGED << cfgVars, job, pc, msg_size, rep, bufVars, reqRecv, stream, barCount, total_time, resVars, ioVars >>

Next ==
    \E r \in Ranks :
        \/ Header(r)
        \/ LoopTest(r)
        \/ CountCheck(r)
        \/ Allocate(r)
        \/ Initialize(r)
        \/ BarrierEnter(r)
        \/ BarrierExit(r)
        \/ RoundBegin(r)
        \/ CopyD2H(r)
        \/ Irecv(r)
        \/ Isend(r)
        \/ Waitall(r)
        \/ CopyH2D(r)
        \/ WarmupRound(r)
        \/ WarmupSync(r)
        \/ TimedRound(r)
        \/ TimedSync(r)
        \/ Verify(r)
        \/ Gather(r)
        \/ PrintRow(r)
        \/ Release(r)
        \/ Finalize(r)
        \/ StreamLaunch(r)
        \/ GroupComplete(r)
        \/ Deliver(r)
        \/ EagerComplete(r)

Spec == Init /\ [][Next]_vars

\* What one rank's host thread does, and what the transport does on its behalf.
Host(r) ==
    \/ Header(r) \/ LoopTest(r) \/ CountCheck(r) \/ Allocate(r) \/ Initialize(r)
    \/ BarrierEnter(r) \/ BarrierExit(r) \/ RoundBegin(r) \/ CopyD2H(r)
    \/ Irecv(r) \/ Isend(r) \/ Waitall(r) \/ CopyH2D(r)
    \/ WarmupRound(r) \/ WarmupSync(r) \/ TimedRound(r) \/ TimedSync(r)
    \/ Verify(r) \/ Gather(r) \/ PrintRow(r) \/ Release(r) \/ Finalize(r)

Transport(r) ==
    \/ StreamLaunch(r) \/ GroupComplete(r) \/ Deliver(r) \/ EagerComplete(r)

\* Every process keeps being scheduled and the transport keeps making progress
\* on every posted operation it can complete.
Fairness ==
    \A r \in 0 .. (MaxP - 1) :
        /\ WF_vars(r \in Ranks /\ Host(r))
        /\ WF_vars(r \in Ranks /\ Transport(r))

SpecFair == Init /\ [][Next]_vars /\ Fairness

\* The same programs with up to WideP ranks, on the one-step builds.
SpecWide == InitWide /\ [][Next]_vars

\* ------------------------------------------------------------- the topology
\* next() applied repeatedly from one rank of a group of world_size ranks.
InitTopo ==
    /\ variant \in Variants
    /\ world_size \in 1 .. MaxRing
    /\ cfg = Shipped
    /\ \E s \in Ranks : walk = [start |-> s, cur |-> s, steps |-> 0, seen |-> {}]
    /\ Start
    /\ RingAlone

WalkNext ==
    /\ walk.steps < world_size
    /\ walk' = [walk EXCEPT !.cur = next(walk.cur, world_size),
                            !.steps = @ + 1,
                            !.seen = @ \cup {walk.cur}]
    /\ UNCHANGED << otherVars, variant, world_size, cfg, setupVars, job, pc, msg_size, rep,
                    bufVars, netVars, barCount, total_time, resVars, ioVars, logVars >>

SpecTopo == InitTopo /\ [][WalkNext]_vars

\* ------------------------------------------------ set-up before the size loop
\* The set-up steps leave everything of the ring untouched.
ringVars == << job, msg_size, rep, bufVars, netVars, barCount, total_time,
               resVars, ioVars, logVars >>

\* A diagnostic of HIP_CHECK / RCCL_CHECK / CHECK_ALLOC on stderr: what failed
\* and __FILE__:__LINE__ (the line within src/ of the variant that runs); "mpi"
\* stands for the message of the MPI library's own error handler.
Diagnostic(r, k, what, l) ==
    [kind |-> k, rank |-> r, error |-> what, line |-> l, errorcode |-> -1]

\* fprintf(stderr, ...); MPI_Abort(MPI_COMM_WORLD, -1): the job ends with
\* rank r where it is.
AbortWith(r, k, what, l) ==
    /\ err' = Append(err, Diagnostic(r, k, what, l))
    /\ failed' = [failed EXCEPT ![r] = k]
    /\ job' = "aborted"
    /\ UNCHANGED << otherVars, variant, world_size, cfg, walk, env, host_rank, num_devices,
                    device, id, bcast, uid_made, comm, hstream >>
    /\ UNCHANGED << pc, msg_size, rep, bufVars, netVars, barCount, total_time,
                    resVars, out, logVars >>

\* MPI programs: MPI_Comm_split_type(...); MPI_Comm_rank(host_comm, &host_rank).
SplitHost(r) ==
    /\ Running(r, "split")
    /\ host_rank' = [host_rank EXCEPT ![r] = LocalRank(env, r)]
    /\ pc' = [pc EXCEPT ![r] = "devcount"]
    /\ UNCHANGED << otherVars, variant, world_size, cfg, walk, env, num_devices, device, id,
                    bcast, uid_made, comm, hstream, failed >>
    /\ UNCHANGED ringVars

\* Mutant: the query succeeds with a count of zero.
GetDeviceCountZeroOk(r) ==
    /\ Running(r, "devcount")
    /\ num_devices' = [num_devices EXCEPT ![r] = env.devices]
    /\ pc' = [pc EXCEPT ![r] = "setdevice"]
    /\ UNCHANGED << otherVars, variant, world_size, cfg, walk, env, host_rank, device, id,
                    bcast, uid_made, comm, hstream, failed >>
    /\ UNCHANGED ringVars

\* HIP_CHECK(hipGetDeviceCount(&num_devices)).  With __HIP_PLATFORM_AMD__ the
\* call returns hipErrorNoDevice when no accelerator is visible and hipSuccess
\* with the count when there is at least one.
GetDeviceCount(r) ==
    /\ Running(r, "devcount")
    /\ IF env.devices = 0
         THEN AbortWith(r, "hip", "hipErrorNoDevice",
                        CASE variant = "mpigpuawarering" -> 134
                          [] variant = "mpigpuring" -> 700
                          [] OTHER -> 131)
         ELSE /\ num_devices' = [num_devices EXCEPT ![r] = env.devices]
              /\ pc' = [pc EXCEPT ![r] = "setdevice"]
              /\ UNCHANGED << otherVars, variant, world_size, cfg, walk, env, host_rank, device,
                              id, bcast, uid_made, comm, hstream, failed >>
              /\ UNCHANGED ringVars

\* What a remainder by zero may leave in the argument, if the process survives it.
ZeroDivisorOutcomes == {NULL} \cup (0 .. MaxDevices)

\* HIP_CHECK(hipSetDevice(host_rank % num_devices)), rcclring.c: world_rank %
\* num_devices.  The remainder by a zero count is undefined.
SetDevice(r) ==
    /\ Running(r, "setdevice")
    /\ IF num_devices[r] = 0
         THEN \E d \in ZeroDivisorOutcomes : device' = [device EXCEPT ![r] = d]
         ELSE device' = [device EXCEPT ![r] =
                            DeviceIndex(r, host_rank[r], num_devices[r])]
    /\ pc' = [pc EXCEPT ![r] = IF IsMPI THEN "header" ELSE "uid"]
    /\ UNCHANGED << otherVars, variant, world_size, cfg, walk, env, host_rank, num_devices, id,
                    bcast, uid_made, comm, hstream, failed >>
    /\ UNCHANGED ringVars

\* if (world_rank == 0) RCCL_CHECK(ncclGetUniqueId(&id));
GetUniqueId(r) ==
    /\ Running(r, "uid")
    /\ IF r = 0
         THEN /\ id' = [id EXCEPT ![r] = UniqueId(r)]
              /\ uid_made' = uid_made \cup {r}
         ELSE UNCHANGED << id, uid_made >>
    /\ pc' = [pc EXCEPT ![r] = "bcast"]
    /\ UNCHANGED << otherVars, variant, world_size, cfg, walk, env, host_rank, num_devices,
                    device, bcast, comm, hstream, failed >>
    /\ UNCHANGED ringVars

\* Mutant: the broadcast leaves the buffer of the other ranks as it was.
BcastRootOnly(r) ==
    /\ Running(r, "bcast")
    /\ IF r = 0
         THEN bcast' = id[r]
         ELSE bcast # NoId /\ UNCHANGED bcast
    /\ UNCHANGED id
    /\ pc' = [pc EXCEPT ![r] = "comminit"]
    /\ UNCHANGED << otherVars, variant, world_size, cfg, walk, env, host_rank, num_devices,
                    device, uid_made, comm, hstream, failed >>
    /\ UNCHANGED ringVars

\* MPI_Bcast(&id, sizeof(id), MPI_BYTE, 0, MPI_COMM_WORLD): the root hands its
\* buffer over and returns; another rank returns with the root's value.
Bcast(r) ==
    /\ Running(r, "bcast")
    /\ IF r = 0
         THEN /\ bcast' = id[r]
              /\ UNCHANGED id
         ELSE /\ bcast # NoId
              /\ id' = [id EXCEPT ![r] = bcast]
              /\ UNCHANGED bcast
    /\ pc' = [pc EXCEPT ![r] = "comminit"]
    /\ UNCHANGED << otherVars, variant, world_size, cfg, walk, env, host_rank, num_devices,
                    device, uid_made, comm, hstream, failed >>
    /\ UNCHANGED ringVars

SetupPcs == {"split", "devcount", "setdevice", "uid", "bcast", "comminit"}

\* ncclCommInitRank(&comm, world_size, id, world_rank) / hipStreamCreate(&stream).
Created(h) == [state |-> "live", made |-> h.made + 1, freed |-> h.freed]

\* RCCL_CHECK(ncclCommInitRank(&comm, world_size, id, world_rank)), which returns
\* once every rank of the group has called it, and HIP_CHECK(hipStreamCreate(
\* &stream)).  What the call does with identifiers that differ is not modelled.
CommInitRank(r) ==
    /\ Running(r, "comminit")
    /\ \A q \in Ranks : pc[q] \notin (SetupPcs \ {"comminit"})
    /\ comm' = [comm EXCEPT ![r] = Created(@)]
    /\ hstream' = [hstream EXCEPT ![r] = Created(@)]
    /\ pc' = [pc EXCEPT ![r] = "header"]
    /\ UNCHANGED << otherVars, variant, world_size, cfg, walk, env, host_rank, num_devices,
                    device, id, bcast, uid_made, failed >>
    /\ UNCHANGED ringVars

\* ------------------------------------------------------------ failing calls
\* The calls of one kind at the given lines; wait: the call comes after a
\* blocking call of the same step and is reached only when that has returned.
Calls(k, lines, w) == {[kind |-> k, line |-> l, wait |-> w] : l \in lines}

\* mpigpuawarering.c: the calls each step makes that can report an error.
AwareCalls(r, at) ==
    CASE at = "split" -> Calls("mpi", {122, 128}, FALSE)
      [] at = "devcount" -> Calls("hip", {134}, FALSE)
      [] at = "setdevice" -> Calls("hip", {135}, FALSE)
      [] at = "alloc" -> Calls("hip", {170, 171}, FALSE)
      [] at = "init" -> Calls("alloc", {177}, FALSE) \cup Calls("hip", {182, 185}, FALSE)
      [] at \in {"barrier", "barrier_wait"} -> Calls("mpi", {186}, FALSE)
      [] at = "round" -> IF rep[r] < N_REPEAT THEN Calls("hip", {196}, FALSE) ELSE {}
      [] at = "irecv" -> Calls("mpi", {199}, FALSE)
      [] at = "isend" -> Calls("mpi", {200}, FALSE)
      [] at = "waitall" -> Calls("mpi", {201}, FALSE) \cup Calls("hip", {203}, TRUE)
      [] at = "verify" -> Calls("hip", {211, 212}, FALSE)
      [] at = "gather" -> (IF r = 0 THEN Calls("alloc", {232, 233, 234}, FALSE) ELSE {})
                            \cup Calls("mpi", {237, 238, 239}, FALSE)
      [] at = "release" -> Calls("hip", {260, 261}, FALSE)
      [] at = "finalize" -> Calls("mpi", {264, 265}, FALSE)
      [] OTHER -> {}

\* mpigpuring.c.
StagedCalls(r, at) ==
    CASE at = "split" -> Calls("mpi", {688, 694}, FALSE)
      [] at = "devcount" -> Calls("hip", {700}, FALSE)
      [] at = "setdevice" -> Calls("hip", {701}, FALSE)
      [] at = "alloc" -> Calls("hip", {736, 737}, FALSE) \cup Calls("alloc", {744, 745}, FALSE)
      [] at = "init" -> Calls("hip", {754, 755}, FALSE)
      [] at \in {"barrier", "barrier_wait"} -> Calls("mpi", {756}, FALSE)
      [] at = "round" -> IF rep[r] < N_REPEAT THEN Calls("hip", {766}, FALSE) ELSE {}
      [] at = "d2h" -> Calls("hip", {770, 771}, FALSE)
      [] at = "irecv" -> Calls("mpi", {774}, FALSE)
      [] at = "isend" -> Calls("mpi", {775}, FALSE)
      [] at = "waitall" -> Calls("mpi", {776}, FALSE)
      [] at = "h2d" -> Calls("hip", {779, 780}, FALSE)
      [] at = "verify" -> Calls("hip", {789, 790}, FALSE)
      [] at = "gather" -> (IF r = 0 THEN Calls("alloc", {810, 811, 812}, FALSE) ELSE {})
                            \cup Calls("mpi", {815, 816, 817}, FALSE)
      [] at = "release" -> Calls("hip", {838, 839}, FALSE)
      [] at = "finalize" -> Calls("mpi", {844, 845}, FALSE)
      [] OTHER -> {}

\* rcclring.c.
RcclCalls(r, at) ==
    CASE at = "devcount" -> Calls("hip", {131}, FALSE)
      [] at = "setdevice" -> Calls("hip", {132}, FALSE)
      [] at = "uid" -> IF r = 0 THEN Calls("rccl", {139}, FALSE) ELSE {}
      [] at = "bcast" -> Calls("mpi", {141}, FALSE)
      [] at = "comminit" -> Calls("rccl", {144}, FALSE) \cup Calls("hip", {147}, TRUE)
      [] at = "alloc" -> Calls("hip", {180, 181}, FALSE)
      [] at = "init" -> Calls("alloc", {187}, FALSE) \cup Calls("hip", {191, 194}, FALSE)
      [] at = "w_loop" -> IF rep[r] < N_WARMUP
                            THEN Calls("rccl", {200, 201, 202, 203}, FALSE) ELSE {}
      [] at = "w_sync" -> Calls("hip", {205}, FALSE) \cup Calls("hip", {212, 213}, TRUE)
      [] at = "t_loop" -> IF rep[r] < N_REPEAT
                            THEN Calls("hip", {216, 223}, FALSE)
                                   \cup Calls("rccl", {218, 219, 220, 221}, FALSE)
                            ELSE Calls("hip", {231}, FALSE)
      [] at = "t_sync" -> Calls("hip", {224}, FALSE) \cup Calls("hip", {227}, TRUE)
      [] at = "verify" -> Calls("hip", {237, 238}, FALSE)
      [] at = "gather" -> (IF r = 0 THEN Calls("alloc", {258, 259, 260}, FALSE) ELSE {})
                            \cup Calls("mpi", {263, 264, 265}, FALSE)
      [] at = "release" -> Calls("hip", {286, 287, 288, 289}, FALSE)
      [] at = "finalize" -> Calls("rccl", {295}, FALSE) \cup Calls("hip", {296}, FALSE)
                              \cup Calls("mpi", {298}, FALSE)
      [] OTHER -> {}

\* The calls of kind k rank r can be in where it stands.
CallsAt(r, k) ==
    LET all == CASE variant = "mpigpuawarering" -> AwareCalls(r, pc[r])
                 [] variant = "mpigpuring" -> StagedCalls(r, pc[r])
                 [] OTHER -> RcclCalls(r, pc[r])
    IN  {c \in all : c.kind = k}

\* The blocking call of the step rank r is in has returned.
WaitOver(r) ==
    CASE pc[r] = "waitall" -> reqRecv[r] = "done" /\ reqSend[r] = "done"
      [] pc[r] \in {"w_sync", "t_sync"} -> stream[r] = << >>
      [] pc[r] = "comminit" -> \A q \in Ranks : pc[q] \notin (SetupPcs \ {"comminit"})
      [] OTHER -> TRUE

\* Mutant: the diagnostic is printed and the process carries on.
HipFailCarryOn(r) ==
    /\ job = "running"
    /\ \E c \in CallsAt(r, "hip") :
          /\ c.wait => WaitOver(r)
          /\ err' = Append(err, Diagnostic(r, "hip", "hipError", c.line))
          /\ failed' = [failed EXCEPT ![r] = "hip"]
    /\ UNCHANGED << otherVars, variant, world_size, cfg, walk, env, host_rank, num_devices,
                    device, id, bcast, uid_made, comm, hstream >>
    /\ UNCHANGED << job, pc, msg_size, rep, bufVars, netVars, barCount, total_time,
                    resVars, out, logVars >>

\* HIP_CHECK(call) with err != hipSuccess.
HipFail(r) ==
    /\ job = "running"
    /\ \E c \in CallsAt(r, "hip") :
          /\ c.wait => WaitOver(r)
          /\ AbortWith(r, "hip", "hipError", c.line)

\* CHECK_ALLOC(ptr) with a null pointer from malloc.
AllocFail(r) ==
    /\ job = "running"
    /\ \E c \in CallsAt(r, "alloc") :
          /\ c.wait => WaitOver(r)
          /\ AbortWith(r, "alloc", "Allocation failed", c.line)

\* RCCL_CHECK(call) with res != ncclSuccess.
RcclFail(r) ==
    /\ job = "running"
    /\ \E c \in CallsAt(r, "rccl") :
          /\ c.wait => WaitOver(r)
          /\ AbortWith(r, "rccl", "ncclError", c.line)

\* Mutant: the MPI call returns an error code, which the program does not look at.
MpiFailReturns(r) ==
    /\ job = "running"
    /\ \E c \in CallsAt(r, "mpi") :
          /\ c.wait => WaitOver(r)
          /\ failed' = [failed EXCEPT ![r] = "mpi"]
    /\ UNCHANGED << otherVars, variant, world_size, cfg, walk, env, host_rank, num_devices,
                    device, id, bcast, uid_made, comm, hstream >>
    /\ UNCHANGED << job, pc, msg_size, rep, bufVars, netVars, barCount, total_time,
                    resVars, ioVars, logVars >>

\* An MPI call on MPI_COMM_WORLD (or on host_comm, which inherits from it) that
\* meets an error: no program sets an error handler, so the handler is the
\* initial one, MPI_ERRORS_ARE_FATAL, which aborts the job from inside the call.
MpiFail(r) ==
    /\ job = "running"
    /\ \E c \in CallsAt(r, "mpi") :
          /\ c.wait => WaitOver(r)
          /\ AbortWith(r, "mpi", "MPI_ERRORS_ARE_FATAL", c.line)

\* ------------------------------------------------- the programs from MPI_Init
Placements == [Ranks -> 0 .. (MaxNodes - 1)]

\* The state after MPI_Init, MPI_Comm_rank and MPI_Comm_size on a machine with
\* the ranks placed on up to MaxNodes nodes, each showing the same number of
\* accelerators, possibly none.
InitEnv ==
    /\ variant \in Variants
    /\ world_size \in 1 .. EnvP
    /\ cfg \in {OneStep, Oversize}
    /\ walk = NoWalk
    /\ \E f \in Placements : \E n \in 0 .. MaxDevices :
          env = [node |-> f, devices |-> n]
    /\ host_rank = [r \in Ranks |-> 0]
    /\ num_devices = [r \in Ranks |-> 0]
    /\ device = [r \in Ranks |-> NULL]
    /\ id = [r \in Ranks |-> NoId]
    /\ bcast = NoId
    /\ uid_made = {}
    /\ comm = [r \in Ranks |-> NoHandle]
    /\ hstream = [r \in Ranks |-> NoHandle]
    /\ pc = [r \in Ranks |-> IF IsMPI THEN "split" ELSE "devcount"]
    /\ Locals
    /\ RingAlone

NextEnv ==
    \/ Next
    \/ \E r \in Ranks :
          \/ SplitHost(r)
          \/ GetDeviceCount(r)
          \/ SetDevice(r)
          \/ GetUniqueId(r)
          \/ Bcast(r)
          \/ CommInitRank(r)
          \/ HipFail(r)
          \/ AllocFail(r)
          \/ RcclFail(r)
          \/ MpiFail(r)

SpecEnv == InitEnv /\ [][NextEnv]_vars

\* The selection of the accelerator only, for up to SelectP ranks placed on
\* up to MaxNodes nodes.
InitSelect ==
    /\ variant \in Variants
    /\ world_size \in 1 .. SelectP
    /\ cfg = OneStep
    /\ walk = NoWalk
    /\ \E f \in Placements : \E n \in 0 .. MaxDevices :
          env = [node |-> f, devices |-> n]
    /\ host_rank = [r \in Ranks |-> 0]
    /\ num_devices = [r \in Ranks |-> 0]
    /\ device = [r \in Ranks |-> NULL]
    /\ id = [r \in Ranks |-> NoId]
    /\ bcast = NoId
    /\ uid_made = {}
    /\ comm = [r \in Ranks |-> NoHandle]
    /\ hstream = [r \in Ranks |-> NoHandle]
    /\ pc = [r \in Ranks |-> IF IsMPI THEN "split" ELSE "devcount"]
    /\ Locals
    /\ RingAlone

NextSelect ==
    \E r \in Ranks :
        \/ SplitHost(r)
        \/ GetDeviceCount(r)
        \/ SetDevice(r)

SpecSelect == InitSelect /\ [][NextSelect]_vars
\* Once every rank is through the set-up on the documented machine, the state
\* is the one the other specifications start from.
SetupReachesStart ==
    (env = OneNode(world_size) /\ \A r \in Ranks : pc[r] = "header" /\ out[r] = << >>)
        => Ready(env)

\* ------------------------------------------------------ a process that hangs
\* The calls inside a round at which a process may hang: before it posts
\* anything, and inside the wait with its receive and send posted.
StallCalls == IF IsMPI THEN {"round", "waitall"} ELSE {"w_loop", "t_loop", "t_sync"}

StallPoints ==
    {p \in [rank : Ranks, size : {cfg.min, cfg.max}, rnd : {0, N_REPEAT - 1},
            at : StallCalls] : p.at = "w_loop" => p.rnd = 0}

\* The programs on the documented machine, one process hanging at some round
\* of the first or of the last size step.
InitStall ==
    /\ variant \in Variants
    /\ world_size \in 1 .. StallP
    /\ cfg = TwoStep
    /\ walk = NoWalk
    /\ Start
    /\ stall \in StallPoints
    /\ clock = UnitClock
    /\ ReductionIdle
    /\ WisdomIdle

SpecStall == InitStall /\ [][Next]_vars
\* ---------------------------------------------------- the reported bandwidth
\* One process, a build with a single size step of any of the sizes of the
\* shipped build, and a clock that measures a round as zero or one tick.
StepSizes == {z \in MIN_MSG_SIZE .. MAX_MSG_SIZE :
                 \E k \in 0 .. 7 : z = MIN_MSG_SIZE * (2 ^ k)}
CoarseClock == {0, 1}

InitBw ==
    /\ variant \in Variants
    /\ world_size = 1
    /\ cfg \in {[min |-> z, max |-> z] : z \in StepSizes}
    /\ walk = NoWalk
    /\ Start
    /\ stall = NoStall
    /\ clock = CoarseClock
    /\ ReductionIdle
    /\ WisdomIdle

SpecBw == InitBw /\ [][Next]_vars
\* ======================================================== vectorreduction.cpp
\* The ring programs when another program is the one running.
RingIdle ==
    /\ variant = "rcclring"
    /\ world_size = 1
    /\ cfg = OneStep
    /\ walk = NoWalk
    /\ Start
    /\ stall = NoStall
    /\ clock = UnitClock

ringProgVars == << variant, world_size, cfg, walk, setupVars, pc, ringVars,
                   stall, clock >>

\* std::vector<double> h_data(ARRAY_SIZE, 1.0), copied to d_data.
h_data(i) == 1

\* (n + THREADS_PER_BLOCK * 2 - 1) / (THREADS_PER_BLOCK * 2)
BlocksFor(n) == (n + THREADS_PER_BLOCK * 2 - 1) \div (THREADS_PER_BLOCK * 2)

Threads == 0 .. (THREADS_PER_BLOCK - 1)
GridBlocks == 0 .. (kernel.grid - 1)

\* The state after the two hipMalloc, the copy of h_data to d_data and the
\* hipDeviceSynchronize before the first launch.
InitReduce ==
    /\ RingIdle
    /\ WisdomIdle
    /\ array_size \in 1 .. MaxArray
    /\ d_partial = [b \in 0 .. (BlocksFor(array_size) - 1) |-> Garbage]
    /\ vr_s = 0
    /\ kernel = NoKernel
    /\ loaded = << >>
    /\ sdata = << >>
    /\ written = {}
    /\ gpu_sum = 0
    /\ vr_pc = "launch"
    /\ stale = FALSE

\* hipLaunchKernelGGL(block_reduce, dim3(grid), dim3(THREADS_PER_BLOCK), 0, 0,
\* input, d_partial, n): every thread of every block starts with sum = 0.0.
Launch(input, n, grid) ==
    /\ kernel' = [input |-> input, size |-> n, grid |-> grid]
    /\ loaded' = [b \in 0 .. (grid - 1) |-> [t \in Threads |-> 0]]
    /\ sdata' = [b \in 0 .. (grid - 1) |-> [t \in Threads |-> 0]]
    /\ written' = {}

\* The first launch: from d_data into d_partial.
FirstLaunch ==
    /\ vr_pc = "launch"
    /\ Launch("d_data", array_size, BlocksFor(array_size))
    /\ vr_pc' = "sync1"
    /\ UNCHANGED << array_size, d_partial, vr_s, gpu_sum, stale, fftVars, ringProgVars >>

\* hipDeviceSynchronize() returns when every block has finished; s = blocks.
FirstSync ==
    /\ vr_pc = "sync1"
    /\ written = GridBlocks
    /\ vr_s' = BlocksFor(array_size)
    /\ kernel' = NoKernel
    /\ vr_pc' = "while"
    /\ UNCHANGED << array_size, d_partial, loaded, sdata, written, gpu_sum, stale,
                    fftVars, ringProgVars >>

\* while (s > 1) { next_blocks = ...; launch from d_partial into d_partial
WhileTest ==
    /\ vr_pc = "while"
    /\ IF vr_s > 1
         THEN /\ Launch("d_partial", vr_s, BlocksFor(vr_s))
              /\ vr_pc' = "sync"
         ELSE /\ vr_pc' = "copy"
              /\ UNCHANGED << kernel, loaded, sdata, written >>
    /\ UNCHANGED << array_size, d_partial, vr_s, gpu_sum, stale, fftVars, ringProgVars >>

\* hipDeviceSynchronize(); s = next_blocks; }
LoopSync ==
    /\ vr_pc = "sync"
    /\ written = GridBlocks
    /\ vr_s' = kernel.grid
    /\ kernel' = NoKernel
    /\ vr_pc' = "while"
    /\ UNCHANGED << array_size, d_partial, loaded, sdata, written, gpu_sum, stale,
                    fftVars, ringProgVars >>

\* hipMemcpy(&gpu_sum, d_partial, sizeof(double), hipMemcpyDeviceToHost)
CopyResult ==
    /\ vr_pc = "copy"
    /\ gpu_sum' = d_partial[0]
    /\ vr_pc' = "done"
    /\ UNCHANGED << array_size, d_partial, vr_s, kernel, loaded, sdata, written, stale,
                    fftVars, ringProgVars >>

\* idx = blockIdx.x * blockDim.x * 2 + tid for the first load of a thread,
\* idx + blockDim.x for its second.
LoadIndex(b, t, k) ==
    b * THREADS_PER_BLOCK * 2 + t + (IF k = 0 THEN 0 ELSE THREADS_PER_BLOCK)

\* if (idx < size) sum += input[idx]; if (idx + blockDim.x < size) sum +=
\* input[idx + blockDim.x]: one of the two loads of thread t of block b.  The
\* blocks of a launch run in any order and nothing orders the load against the
\* store of another block: the load sees whatever d_partial holds when it runs.
ThreadLoad(b, t) ==
    /\ kernel # NoKernel
    /\ b \in GridBlocks
    /\ loaded[b][t] < 2
    /\ LET idx == LoadIndex(b, t, loaded[b][t])
           reads == idx < kernel.size
           val == IF kernel.input = "d_data" THEN h_data(idx) ELSE d_partial[idx]
       IN  /\ sdata' = [sdata EXCEPT ![b][t] = IF reads THEN @ + val ELSE @]
           /\ stale' = (stale \/ (reads /\ kernel.input = "d_partial"
                                          /\ idx \in written /\ idx # b))
    /\ loaded' = [loaded EXCEPT ![b][t] = @ + 1]
    /\ UNCHANGED << array_size, d_partial, vr_s, kernel, written, gpu_sum, vr_pc,
                    fftVars, ringProgVars >>

\* for (s = blockDim.x / 2; s > 0; s >>= 1) { if (tid < s) sdata[tid] +=
\* sdata[tid + s]; __syncthreads(); }
RECURSIVE TreeReduce(_, _)
TreeReduce(sd, half) ==
    IF half = 0 THEN sd
    ELSE TreeReduce([t \in Threads |-> IF t < half THEN sd[t] + sd[t + half] ELSE sd[t]],
                    half \div 2)

\* After the __syncthreads() that follows the loads of all threads of block b:
\* the reduction in shared memory, and if (tid == 0) output[blockIdx.x] = sdata[0].
BlockStore(b) ==
    /\ kernel # NoKernel
    /\ b \in GridBlocks \ written
    /\ \A t \in Threads : loaded[b][t] = 2
    /\ d_partial' = [d_partial EXCEPT
                        ![b] = TreeReduce(sdata[b], THREADS_PER_BLOCK \div 2)[0]]
    /\ written' = written \cup {b}
    /\ UNCHANGED << array_size, vr_s, kernel, loaded, sdata, gpu_sum, vr_pc, stale,
                    fftVars, ringProgVars >>

NextReduce ==
    \/ FirstLaunch
    \/ FirstSync
    \/ WhileTest
    \/ LoopSync
    \/ CopyResult
    \/ \E b \in 0 .. (BlocksFor(MaxArray) - 1) : \E t \in Threads : ThreadLoad(b, t)
    \/ \E b \in 0 .. (BlocksFor(MaxArray) - 1) : BlockStore(b)

SpecReduce == InitReduce /\ [][NextReduce]_vars
\* =========================================================== fftpoisson3d.cpp
\* The values std::stoul gives for the three arguments of a run.
GridDims == {0, 1, 11}

Digit(d) == << "0", "1", "2", "3", "4", "5", "6", "7", "8", "9" >>[d + 1]

\* operator<< of a size_t: its decimal digits, most significant first.
RECURSIVE Decimal(_)
Decimal(n) == IF n < 10 THEN << Digit(n) >> ELSE Decimal(n \div 10) \o << Digit(n % 10) >>

\* Mutant: the name is built without the separators.
wisdom_fileNoSeparator(x, y, z) ==
    << "fftpoisson3d_fftw_wisdom_" >> \o Decimal(x) \o Decimal(y) \o Decimal(z)
        \o << ".dat" >>
\* wisdom_name << "fftpoisson3d_fftw_wisdom_" << Nx << "_" << Ny << "_" << Nz << ".dat"
wisdom_file(x, y, z) ==
    << "fftpoisson3d_fftw_wisdom_" >> \o Decimal(x) \o << "_" >> \o Decimal(y)
        \o << "_" >> \o Decimal(z) \o << ".dat" >>

NoGrid == << 0, 0, 0 >>

\* No run has been made and the working directory holds no wisdom file.
InitWisdom ==
    /\ RingIdle
    /\ ReductionIdle
    /\ WisdomIdle

\* The program is started with three arguments.
RunStart ==
    /\ fft_pc = "shell"
    /\ Len(past) < MaxRuns
    /\ \E x, y, z \in GridDims : Nx' = x /\ Ny' = y /\ Nz' = z
    /\ wisdom_loaded' = FALSE
    /\ fft_pc' = "validate"
    /\ UNCHANGED << files, past, redVars, ringProgVars >>

\* if (Nx <= 0 || Ny <= 0 || Nz <= 0) return EXIT_FAILURE; otherwise the GPU
\* part of the run.
Validate ==
    /\ fft_pc = "validate"
    /\ fft_pc' = IF Nx <= 0 \/ Ny <= 0 \/ Nz <= 0 THEN "shell" ELSE "import"
    /\ UNCHANGED << files, past, Nx, Ny, Nz, wisdom_loaded, redVars, ringProgVars >>

\* wisdom_loaded = fftw_import_wisdom_from_filename(wisdom_file.c_str()): true
\* when the file exists; then the CPU part of the run.
ImportWisdom ==
    /\ fft_pc = "import"
    /\ wisdom_loaded' = (\E f \in files : f.name = wisdom_file(Nx, Ny, Nz))
    /\ fft_pc' = "export"
    /\ UNCHANGED << files, past, Nx, Ny, Nz, redVars, ringProgVars >>

\* if (!wisdom_loaded) fftw_export_wisdom_to_filename(wisdom_file.c_str());
\* then the error report and return EXIT_SUCCESS.  past records the run: its
\* grid, whether it loaded a file and which grid had written that file, and
\* whether it wrote one.
ExportWisdom ==
    /\ fft_pc = "export"
    /\ LET name == wisdom_file(Nx, Ny, Nz)
           grid == << Nx, Ny, Nz >>
       IN  /\ files' = IF wisdom_loaded
                          THEN files
                          ELSE {f \in files : f.name # name}
                                  \cup {[name |-> name, by |-> grid]}
           /\ past' = Append(past,
                        [grid |-> grid, file |-> name, loaded |-> wisdom_loaded,
                         from |-> IF wisdom_loaded
                                    THEN (CHOOSE f \in files : f.name = name).by
                                    ELSE NoGrid,
                         wrote |-> ~ wisdom_loaded])
    /\ fft_pc' = "shell"
    /\ UNCHANGED << Nx, Ny, Nz, wisdom_loaded, redVars, ringProgVars >>

NextWisdom ==
    \/ RunStart
    \/ Validate
    \/ ImportWisdom
    \/ ExportWisdom

SpecWisdom == InitWisdom /\ [][NextWisdom]_vars
\* ================================================================ properties

AllDone == \A r \in Ranks : pc[r] = "done"

\* The predecessor of r in the ring, and the value it sends, in plain arithmetic.
RingPrev(r) == (r - 1 + world_size) % world_size
RingNext(r) == (r + 1) % world_size

MpiRoundPcs == {"round", "d2h", "irecv", "isend", "waitall", "h2d"}
AfterRoundsPcs == {"verify", "gather", "print", "release"}

\* Rounds of the current size step that rank r has completed (warm-up included).
Completed(r) ==
    CASE pc[r] \in MpiRoundPcs -> rep[r]
      [] pc[r] = "w_loop" -> rep[r] - Len(stream[r])
      [] pc[r] = "w_sync" -> N_WARMUP - Len(stream[r])
      [] pc[r] = "t_loop" -> N_WARMUP + rep[r]
      [] pc[r] = "t_sync" -> N_WARMUP + rep[r] + 1 - Len(stream[r])
      [] pc[r] \in AfterRoundsPcs -> (IF IsMPI THEN 0 ELSE N_WARMUP) + N_REPEAT
      [] OTHER -> 0

\* ---------------------------------------------------------------------- C1
NoDeadlockState ==
    (job = "running" /\ ~ AllDone) => ENABLED Next

\* C1: for every group size (1 and 2 included), in a run where the transport
\* and the processes are scheduled fairly, no reachable state is a deadlock and
\* every process completes every round and reaches finalization.
C1_RingCompletes ==
    /\ [] NoDeadlockState
    /\ (cfg # Oversize) => <> AllDone

C1_Witness ==
    /\ world_size = MaxP
    /\ variant = "mpigpuawarering"
    /\ AllDone
    /\ Len(out[0]) > 1

\* ---------------------------------------------------------------------- C2
\* C2: after any completed round of a size step, the receive buffer of rank r
\* holds ((r - 1 + P) mod P) + 1, the value its predecessor put in its send buffer.
C2_RoundTrip ==
    \A r \in Ranks :
        Completed(r) >= 1 =>
            /\ d_recv[r] = RingPrev(r) + 1
            /\ (pc[r] \in {"gather", "print", "release"} => recv0[r] = RingPrev(r) + 1)

C2_Witness ==
    /\ world_size = 3
    /\ \E r \in Ranks : Completed(r) = 1 /\ d_recv[r] = RingPrev(r) + 1

\* ---------------------------------------------------------------------- C3
\* C3: within a round the receive from prev is issued before the send to next,
\* and both are outstanding before the process waits on either of them.
C3_RecvBeforeSend ==
    \A r \in Ranks :
        /\ pc[r] = "irecv" => (reqRecv[r] = "null" /\ reqSend[r] = "null")
        /\ pc[r] = "isend" => (reqRecv[r] # "null" /\ reqSend[r] = "null")
        /\ pc[r] = "waitall" => (reqRecv[r] # "null" /\ reqSend[r] # "null")
        /\ IsMPI => (reqSend[r] # "null" => pc[r] = "waitall")
        /\ \A i \in 1 .. Len(stream[r]) :
              LET g == stream[r][i].ops IN
                  /\ Len(g) = 2
                  /\ g[1].op = "recv" /\ g[1].peer = RingPrev(r)
                  /\ g[2].op = "send" /\ g[2].peer = RingNext(r)
        /\ variant = "rcclring" =>
              /\ (reqRecv[r] = "null" <=> reqSend[r] = "null")
              /\ (pc[r] \in {"w_sync", "t_sync"} /\ stream[r] = << >>) =>
                     (reqRecv[r] = "null" /\ reqSend[r] = "null")

C3_Witness ==
    \E r \in Ranks : pc[r] = "waitall" /\ reqRecv[r] = "posted" /\ reqSend[r] = "posted"

\* ---------------------------------------------------------------------- C4
\* Rank q has finished initializing its send buffer for the step of size s.
InitDone(q, s) ==
    /\ pc[q] # "header"
    /\ \/ msg_size[q] > s
       \/ msg_size[q] = s /\ pc[q] \notin {"loop", "check", "alloc", "init"}

\* Rank r has begun the first timed round of its current step.
BegunTimed(r) ==
    \/ pc[r] \in {"d2h", "irecv", "isend", "waitall", "h2d", "t_sync"}
    \/ pc[r] \in {"round", "t_loop"} /\ rep[r] >= 1
    \/ pc[r] \in AfterRoundsPcs

C5_NextPrevInverse ==
    \A r \in Ranks :
        /\ next(r, world_size) \in Ranks
        /\ prev(r, world_size) \in Ranks
        /\ next(prev(r, world_size), world_size) = r
        /\ prev(next(r, world_size), world_size) = r

C5_Witness ==
    /\ world_size = MaxRing
    /\ walk.steps >= 1
    /\ walk.cur = 0
    /\ prev(walk.cur, world_size) = world_size - 1

\* ---------------------------------------------------------------------- C6
\* C6: next is a single cycle over all P ranks: a walk from any rank meets every
\* rank exactly once and is back at its start after exactly P steps.
C6_SingleCycle ==
    /\ walk.steps < world_size =>
          /\ walk.cur \in Ranks \ walk.seen
          /\ Cardinality(walk.seen) = walk.steps
    /\ walk.steps = world_size =>
          /\ walk.cur = walk.start
          /\ walk.seen = Ranks

C6_Witness ==
    /\ world_size = MaxRing
    /\ walk.start = 3
    /\ walk.steps = world_size

\* ---------------------------------------------------------------------- C7
\* C7: once initialized, the device send buffer keeps the value rank + 1 through
\* every warm-up and timed round, and so does the host mirror of the host-staged
\* variant after each device-to-host copy.
C7_SendBufferUnchanged ==
    \A r \in Ranks :
        /\ (pc[r] \in MpiRoundPcs \cup AfterRoundsPcs
                    \cup {"barrier", "barrier_wait", "w_loop", "w_sync", "t_loop", "t_sync"})
              => /\ d_send[r] = r + 1
                 /\ variant = "mpigpuring" => h_send[r] = r + 1
        /\ pc[r] \in {"gather", "print", "release"} => send0[r] = r + 1
        /\ \A i \in 1 .. Len(chan[r]) : chan[r][i].val = r + 1

C7_Witness ==
    /\ variant = "mpigpuring"
    /\ \E r \in Ranks : pc[r] = "irecv" /\ rep[r] = 2 /\ h_send[r] = r + 1

\* ---------------------------------------------------------------------- C8
IsRow(line) == line.kind = "row"

\* C8: every row rank 0 prints has exactly P column groups in rank order, group
\* r holding send0 = r + 1 and recv0 = ((r - 1 + P) mod P) + 1.
C8_RowGroups ==
    \A i \in 1 .. Len(out[0]) :
        IsRow(out[0][i]) =>
            /\ Len(out[0][i].groups) = world_size
            /\ \A r \in Ranks :
                  /\ out[0][i].groups[r + 1].send0 = r + 1
                  /\ out[0][i].groups[r + 1].recv0 = RingPrev(r) + 1

C8_Witness ==
    /\ world_size = 4
    /\ \E i \in 1 .. Len(out[0]) :
          /\ IsRow(out[0][i])
          /\ [r \in 1 .. 4 |-> out[0][i].groups[r].send0] = << 1, 2, 3, 4 >>
          /\ [r \in 1 .. 4 |-> out[0][i].groups[r].recv0] = << 4, 1, 2, 3 >>

\* ---------------------------------------------------------------------- C9
\* Rows rank 0 has printed so far.
Rows == Len(out[0]) - 1

\* C9: only rank 0 prints: the header once, before any row, then one row per
\* size step in increasing size order; the other ranks print nothing.
C9_OnlyRootPrints ==
    /\ \A r \in Ranks \ {0} : out[r] = << >>
    /\ pc[0] = "header" => out[0] = << >>
    /\ pc[0] # "header" =>
          /\ Len(out[0]) >= 1
          /\ out[0][1].kind = "header"
          /\ out[0][1].groups = [i \in 1 .. world_size |-> i - 1]
          /\ \A i \in 1 .. Rows :
                /\ IsRow(out[0][i + 1])
                /\ out[0][i + 1].size = cfg.min * 2 ^ (i - 1)
          /\ cfg.min * 2 ^ Rows =
                (IF pc[0] = "release" THEN 2 * msg_size[0] ELSE msg_size[0])
    /\ pc[0] = "done" => cfg.min * 2 ^ (Rows - 1) = cfg.max

C9_Witness ==
    /\ world_size = 2
    /\ cfg = Shipped
    /\ pc[0] = "done"
    /\ Rows = 8

\* --------------------------------------------------------------------- C10
PastCheckPcs ==
    MpiRoundPcs \cup AfterRoundsPcs
        \cup {"alloc", "init", "barrier", "barrier_wait", "w_loop", "w_sync", "t_loop", "t_sync"}

\* C10: a step whose element count exceeds INT_MAX makes the process report the
\* count and abort the job with a non-zero code before it allocates or sends or
\* receives anything for that step; no operation carries a truncated count.
C10_SizeLimitAborts ==
    /\ \A r \in Ranks :
          /\ pc[r] \in PastCheckPcs => msg_size[r] \div SIZEOF_DOUBLE <= INT_MAX
          /\ d_send[r] # NULL => msg_size[r] \div SIZEOF_DOUBLE <= INT_MAX
          /\ \A i \in 1 .. Len(chan[r]) :
                chan[r][i].cnt = chan[r][i].size \div SIZEOF_DOUBLE
          /\ \A i \in 1 .. Len(stream[r]) : \A j \in 1 .. Len(stream[r][i].ops) :
                stream[r][i].ops[j].cnt = stream[r][i].size \div SIZEOF_DOUBLE
    /\ job = "aborted" =>
          /\ Len(err) = 1
          /\ err[1].kind = "too_large"
          /\ err[1].elements = msg_size[err[1].rank] \div SIZEOF_DOUBLE
          /\ err[1].elements > INT_MAX
          /\ err[1].errorcode # 0
          /\ pc[err[1].rank] = "check"
          /\ d_send[err[1].rank] = NULL /\ d_recv[err[1].rank] = NULL
          /\ reqRecv[err[1].rank] = "null" /\ reqSend[err[1].rank] = "null"
    /\ job = "running" => err = << >>

C10_Witness ==
    /\ job = "aborted"
    /\ cfg = Oversize
    /\ world_size >= 2

\* --------------------------------------------------------------------- C13
Repeat(x, n) == [i \in 1 .. n |-> x]
IsPrefix(a, b) == Len(a) <= Len(b) /\ SubSeq(b, 1, Len(a)) = a
IsBarrier(p) == p = "barrier"
NotBarrier(p) == ~ IsBarrier(p)

\* The phases the claim names, in its order, for the variant that runs.
ClaimedPhases ==
    << "allocate", "init" >>
      \o Repeat("warmup", IF IsMPI THEN 0 ELSE N_WARMUP)
      \o Repeat("timed", N_REPEAT)
      \o << "verify", "aggregate", "release" >>

\* The phases rank r has entered in its current size step, the barrier left out.
PhasesOf(r) == SelectSeq(phase_log[r], NotBarrier)

BetweenStepsPcs == {"loop", "check", "alloc", "finalize", "done"}

\* C13: in every size step each process enters the phases allocate, init,
\* warm-up (N_WARMUP rounds in rcclring, none in the MPI programs), exactly
\* N_REPEAT timed rounds, verify, aggregate, release, in this order, none
\* skipped or repeated; verify is entered only when the last timed round is
\* complete.
C13_PhaseOrder ==
    \A r \in Ranks :
        /\ IsPrefix(PhasesOf(r), ClaimedPhases)
        /\ (pc[r] \in BetweenStepsPcs /\ phase_log[r] # << >>) =>
               PhasesOf(r) = ClaimedPhases
        /\ (pc[r] = "gather") =>
               PhasesOf(r) = SubSeq(ClaimedPhases, 1, Len(ClaimedPhases) - 2)
        /\ (PhasesOf(r) # << >> /\ PhasesOf(r)[Len(PhasesOf(r))] = "verify") =>
               /\ reqRecv[r] = "null" /\ reqSend[r] = "null"
               /\ stream[r] = << >>
               /\ Completed(r) = Len(ClaimedPhases) - 5

C13_Witness ==
    /\ world_size = MaxP
    /\ \E r \in Ranks :
          /\ pc[r] = "check"
          /\ msg_size[r] > cfg.min
          /\ PhasesOf(r) = ClaimedPhases
          /\ Len(PhasesOf(r)) = N_REPEAT + 5 + (IF IsMPI THEN 0 ELSE N_WARMUP)
    /\ variant = "rcclring"

\* --------------------------------------------------------------------- C14
\* C14: a process never holds more than one device send/receive pair, nor more
\* than one pair of host mirror buffers: when it allocates for a size step,
\* nothing of the step before is still allocated.
C14_OnePairAtMost ==
    \A r \in Ranks :
        /\ live[r].dev <= 2 /\ live[r].host <= 2
        /\ live[r].dev >= 0 /\ live[r].host >= 0
        /\ (pc[r] = "alloc") =>
               /\ live[r] = [dev |-> 0, host |-> 0]
               /\ d_send[r] = NULL /\ d_recv[r] = NULL
               /\ h_send[r] = NULL /\ h_recv[r] = NULL
        /\ (live[r].dev = 0) <=> (d_send[r] = NULL /\ d_recv[r] = NULL)
        /\ (live[r].host = 0) <=> (h_send[r] = NULL /\ h_recv[r] = NULL)

C14_Witness ==
    /\ variant = "mpigpuring"
    /\ \E r \in Ranks :
          /\ pc[r] = "init"
          /\ msg_size[r] > cfg.min
          /\ live[r] = [dev |-> 2, host |-> 2]

\* --------------------------------------------------------------------- C17
\* Sends of rank r that are neither received nor completed by the transport.
OutstandingSends(r) == Len(chan[r]) - Buffered(r)

TimedLoopPcs == MpiRoundPcs \cup {"t_loop", "t_sync"}

\* C17: inside the timed loop a process issues the receive and the send of a
\* round only when the wait of the round before has returned, and it never has
\* more than one receive and one send outstanding.
C17_RoundsSequential ==
    \A r \in Ranks :
        /\ (pc[r] \in {"round", "d2h", "irecv", "t_loop"}) =>
               /\ reqRecv[r] = "null" /\ reqSend[r] = "null"
               /\ stream[r] = << >>
               /\ OutstandingSends(r) = 0
        /\ (pc[r] \in TimedLoopPcs) =>
               /\ Len(stream[r]) <= 1
               /\ OutstandingSends(r) <= 1

C17_Witness ==
    /\ variant = "mpigpuawarering"
    /\ world_size = MaxP
    /\ \E r \in Ranks :
          /\ pc[r] = "isend" /\ rep[r] = N_REPEAT - 1
          /\ reqRecv[r] = "done"

\* --------------------------------------------------------------------- C18
\* Every group on a stream is the group of a timed round: receive into d_recv
\* from prev, send of d_send to next, with the element count of the step.
SameGroupEveryRound ==
    \A r \in Ranks : \A i \in 1 .. Len(stream[r]) :
        /\ stream[r][i].ops = RingGroup(r)
        /\ stream[r][i].size = msg_size[r]

\* Only timed rounds add to the accumulator.
WarmupNotTimed ==
    \A r \in Ranks :
        /\ pc[r] = "t_loop" => total_time[r] = rep[r]
        /\ pc[r] = "t_sync" => total_time[r] = rep[r]

\* C18 as stated: warm-up rounds are timed rounds without the timing, the host
\* waiting for each round to complete before it issues the next.
C18_WarmupLikeTimed ==
    /\ SameGroupEveryRound
    /\ WarmupNotTimed
    /\ \A r \in Ranks : Len(stream[r]) <= 1

\* C18, amended: warm-up rounds issue the same group as timed rounds and add
\* nothing to the accumulator, but the host issues all N_WARMUP of them without
\* waiting in between; the stream runs them one after the other, and the host
\* waits once, after the last, before the first timed round.
C18_WarmupBackToBack ==
    /\ SameGroupEveryRound
    /\ WarmupNotTimed
    /\ \A r \in Ranks :
          /\ Len(stream[r]) <= N_WARMUP
          /\ \A i \in 1 .. Len(stream[r]) : \A j \in 1 .. Len(stream[r]) :
                i < j => stream[r][i].rnd < stream[r][j].rnd
          /\ (pc[r] \in {"w_loop", "w_sync"}) =>
                \A i \in 1 .. Len(stream[r]) : ~ stream[r][i].timed
          /\ (pc[r] \notin {"w_loop", "w_sync"}) =>
                /\ Len(stream[r]) <= 1
                /\ \A i \in 1 .. Len(stream[r]) : stream[r][i].timed

C18_Witness ==
    /\ variant = "rcclring"
    /\ \E r \in Ranks :
          /\ pc[r] = "w_loop" /\ rep[r] = N_WARMUP
          /\ Len(stream[r]) = N_WARMUP
          /\ reqRecv[r] = "posted"

\* --------------------------------------------------------------------- C19
\* Every occurrence of call e in l that is not the last entry is followed by f.
FollowedBy(l, e, f) ==
    \A i \in 1 .. Len(l) : (l[i] = e /\ i < Len(l)) => l[i + 1] = f

\* The first position of call e in l, 0 if there is none.
PosOf(l, e) ==
    IF \E i \in 1 .. Len(l) : l[i] = e
      THEN CHOOSE i \in 1 .. Len(l) : l[i] = e /\ \A j \in 1 .. (i - 1) : l[j] # e
      ELSE 0

\* In l, call e comes before call f whenever f is there.
Before(l, e, f) == PosOf(l, f) > 0 => (PosOf(l, e) > 0 /\ PosOf(l, e) < PosOf(l, f))

\* Device-to-host copy, receive, send, wait, host-to-device copy, in this order
\* and between the two readings of the clock.
StagedOrder(l) ==
    /\ Before(l, "t0", "d2h")
    /\ Before(l, "d2h", "irecv")
    /\ Before(l, "irecv", "isend")
    /\ Before(l, "isend", "waitall")
    /\ Before(l, "waitall", "h2d")
    /\ Before(l, "h2d", "t1")

\* C19 as stated: in a timed round of the host-staged program the order is
\* device-to-host copy, exchange, host-to-device copy inside the timed interval,
\* and each of the three is followed by a device synchronization.
C19_SyncAfterEachPhase ==
    variant = "mpigpuring" =>
        \A r \in Ranks :
            /\ StagedOrder(round_log[r])
            /\ FollowedBy(round_log[r], "d2h", "sync")
            /\ FollowedBy(round_log[r], "waitall", "sync")
            /\ FollowedBy(round_log[r], "h2d", "sync")

\* C19, amended: same order inside the timed interval; the two copies are each
\* followed by a device synchronization, the exchange ends with MPI_Waitall and
\* the copy back to the device follows it directly.
C19_SyncAfterCopies ==
    variant = "mpigpuring" =>
        \A r \in Ranks :
            /\ StagedOrder(round_log[r])
            /\ FollowedBy(round_log[r], "d2h", "sync")
            /\ FollowedBy(round_log[r], "waitall", "h2d")
            /\ FollowedBy(round_log[r], "h2d", "sync")
            /\ (PosOf(round_log[r], "h2d") > 0) =>
                   round_log[r][Len(round_log[r])] = "t1"

C19_Witness ==
    /\ variant = "mpigpuring"
    /\ \E r \in Ranks :
          /\ pc[r] = "round" /\ rep[r] = 1
          /\ round_log[r] = << "sync", "t0", "d2h", "sync", "irecv", "isend",
                               "waitall", "h2d", "sync", "t1" >>

\* --------------------------------------------------------------------- C11
\* The diagnostics on stderr that rank r printed for a failure of kind k.
DiagnosticsOf(r, k) == {i \in 1 .. Len(err) : err[i].rank = r /\ err[i].kind = k}

\* The ring programs' own checks: HIP_CHECK and CHECK_ALLOC.
CheckedKinds == {"hip", "alloc"}

\* C11: a failed accelerator-runtime call or host allocation makes the process
\* print one diagnostic naming the failure and the source line, and abort the
\* whole job; from then on neither it nor any other process takes a step (no
\* transfer, no transport operation, no retry).
C11_FailureAborts ==
    /\ [] (\A r \in Ranks : failed[r] \in CheckedKinds =>
              /\ job = "aborted"
              /\ Cardinality(DiagnosticsOf(r, failed[r])) = 1
              /\ Cardinality({i \in 1 .. Len(err) : err[i].rank = r}) = 1
              /\ \A i \in DiagnosticsOf(r, failed[r]) :
                    /\ err[i].line > 0
                    /\ err[i].error \in {"hipError", "hipErrorNoDevice", "Allocation failed"})
    /\ [][(\A r \in Ranks : failed[r] \notin CheckedKinds) /\ job = "running"]_vars

C11_Witness ==
    /\ variant = "mpigpuring"
    /\ world_size = EnvP
    /\ job = "aborted"
    /\ \E r \in Ranks :
          /\ failed[r] = "alloc" /\ pc[r] = "alloc"
          /\ Len(err) = 1 /\ err[1].line = 744
          /\ \E q \in Ranks : q # r /\ pc[q] = "barrier_wait"

\* --------------------------------------------------------------------- C12
TransportKinds == {"mpi", "rccl"}

\* C12: a transport call that meets an error (MPI point-to-point or collective,
\* RCCL call) ends the whole job; the process that made the call takes no
\* further step, and neither does any other.
C12_TransportErrorAborts ==
    /\ [] (\A r \in Ranks : failed[r] \in TransportKinds =>
              /\ job = "aborted"
              /\ Cardinality(DiagnosticsOf(r, failed[r])) = 1)
    /\ [][(\A r \in Ranks : failed[r] \notin TransportKinds) /\ job = "running"]_vars

C12_Witness ==
    /\ world_size = EnvP
    /\ job = "aborted"
    /\ \E r \in Ranks :
          /\ failed[r] = "mpi" /\ pc[r] = "waitall"
          /\ reqRecv[r] = "done" /\ reqSend[r] = "posted"

\* --------------------------------------------------------------------- C15
\* C15, as stated: in each of the three programs the accelerator selected by a
\* process is (its rank among the processes of its node) mod (the number of
\* accelerators visible).
C15_LocalRankDevice ==
    \A r \in Ranks :
        (device[r] # NULL /\ num_devices[r] > 0) =>
            device[r] = LocalRank(env, r) % num_devices[r]

\* --------------------------------------------------------------------- C16
SetDeviceLines == {135, 701, 132}

\* C16: with no accelerator visible, or when the selection call fails, the
\* process aborts the whole job with a diagnostic; a device index is never
\* computed from a count of zero and the process never gets to the ring loop.
C16_NoDeviceAborts ==
    /\ \A r \in Ranks :
          /\ (pc[r] \notin {"split", "devcount"}) => num_devices[r] >= 1
          /\ (device[r] # NULL) => device[r] \in 0 .. (num_devices[r] - 1)
          /\ (env.devices = 0) =>
                /\ pc[r] \in {"split", "devcount"}
                /\ device[r] = NULL
                /\ failed[r] = "hip" => (job = "aborted" /\ DiagnosticsOf(r, "hip") # {})
    /\ \A i \in 1 .. Len(err) :
          (err[i].kind = "hip" /\ err[i].line \in SetDeviceLines) =>
              /\ job = "aborted"
              /\ pc[err[i].rank] = "setdevice"
              /\ device[err[i].rank] = NULL

C16_Witness ==
    /\ env.devices = 0
    /\ world_size = EnvP
    /\ job = "aborted"
    /\ \E i \in 1 .. Len(err) : err[i].error = "hipErrorNoDevice"
    /\ \A r \in Ranks : pc[r] = "devcount"

\* --------------------------------------------------------------------- C20
\* C20: in rcclring only rank 0 generates the identifier; every rank holds that
\* value when it creates its communicator; communicator and stream are created
\* once, before the first size step, and destroyed once, after the last; every
\* group is issued, and runs, while they exist.
C20_OneContext ==
    /\ uid_made \subseteq {0}
    /\ \A r \in Ranks :
          /\ comm[r].made <= 1 /\ comm[r].freed <= comm[r].made
          /\ hstream[r].made <= 1 /\ hstream[r].freed <= hstream[r].made
          /\ (comm[r].state # "none") => (id[r] = UniqueId(0) /\ bcast = UniqueId(0))
          /\ IsMPI => (comm[r] = NoHandle /\ hstream[r] = NoHandle /\ uid_made = {})
          /\ (variant = "rcclring") =>
                /\ (pc[r] \in SetupPcs) =>
                       (comm[r] = NoHandle /\ hstream[r] = NoHandle /\ stream[r] = << >>)
                /\ (pc[r] \notin SetupPcs \cup {"done"}) =>
                       (comm[r] = Created(NoHandle) /\ hstream[r] = Created(NoHandle))
                /\ (pc[r] = "done") =>
                       /\ comm[r] = Destroyed(Created(NoHandle))
                       /\ hstream[r] = Destroyed(Created(NoHandle))
                /\ (stream[r] # << >> \/ reqRecv[r] # "null" \/ reqSend[r] # "null") =>
                       (comm[r].state = "live" /\ hstream[r].state = "live")

C20_Witness ==
    /\ variant = "rcclring"
    /\ world_size = EnvP
    /\ AllDone
    /\ \A r \in Ranks : comm[r].state = "destroyed" /\ id[r] = UniqueId(0)

\* --------------------------------------------------------------------- C21
\* The rows rank 0 has printed for steps of size z and above.
RowsFrom(z) ==
    {i \in 1 .. Len(out[0]) : out[0][i].kind = "row" /\ out[0][i].size >= z}

\* C21: once a process hangs before completing a round of the step of size s,
\* rank 0 has not printed and never prints the row of s or of a later step,
\* rank 0 never finishes, nothing aborts the job (there is no timeout), and
\* every row that is printed holds the values of all world_size processes.
C21_StallHangsJob ==
    \A r \in Ranks :
        Stalled(r) =>
            /\ RowsFrom(stall.size) = {}
            /\ pc[0] # "done"
            /\ job = "running" /\ err = << >>
            /\ \A i \in 1 .. Len(out[0]) : Len(out[0][i].groups) = world_size

\* The process after rank 0 hangs inside the wait of its last round of the
\* last step: the others finish their rounds, rank 0 has printed the first
\* row only and waits in the gather, and no step is left to take.
C21_Witness ==
    /\ world_size = StallP
    /\ Stalled(1)
    /\ stall.size = cfg.max /\ stall.rnd = N_REPEAT - 1
    /\ pc[0] = "gather" /\ msg_size[0] = cfg.max
    /\ Len(out[0]) = 2
    /\ ~ ENABLED Next

\* --------------------------------------------------------------------- C22
\* C22: the accumulator is zero when the timed loop of a size step starts,
\* holds one sample for each timed round of that step completed so far while
\* the loop runs, and holds exactly N_REPEAT samples when the loop has ended;
\* every sample being one tick, the sum of n samples is n, so a sample of a
\* warm-up round or of an earlier step would show as a larger total.
C22_AccumulatorPerStep ==
    \A r \in Ranks :
        /\ (pc[r] \in {"round", "t_loop"} /\ rep[r] = 0) => total_time[r] = 0
        /\ pc[r] \in TimedLoopPcs => total_time[r] = rep[r]
        /\ pc[r] \in AfterRoundsPcs => total_time[r] = N_REPEAT

\* The timed loop of the second step has ended with N_REPEAT samples in the
\* accumulator, the first step having added N_REPEAT samples of its own.
C22_Witness ==
    /\ cfg = TwoStep
    /\ \E r \in Ranks :
          /\ pc[r] = "verify" /\ msg_size[r] = cfg.max
          /\ total_time[r] = N_REPEAT
          /\ Len(out[0]) = 2

\* --------------------------------------------------------------------- C23
\* Seconds in one tick of the accumulator, inverted: the MPI programs add
\* seconds, rcclring adds milliseconds.
TicksPerSecond == IF IsMPI THEN 1 ELSE 1000

\* C23: the bandwidth a process reports for a size step is twice the size
\* divided by the average time, the average being the accumulated time of the
\* step in seconds divided by N_REPEAT; whenever the accumulated time is
\* positive the bandwidth is positive and finite.
C23_BandwidthFormula ==
    \A r \in Ranks :
        pc[r] \in {"gather", "print", "release"} =>
            /\ bw[r].num * total_time[r]
                   = 2 * msg_size[r] * N_REPEAT * TicksPerSecond * bw[r].den
            /\ total_time[r] > 0 => (bw[r].num > 0 /\ bw[r].den > 0)

\* rcclring has measured three of the ten rounds of the largest step as one
\* millisecond each and has computed its bandwidth.
C23_Witness ==
    /\ variant = "rcclring"
    /\ pc[0] = "gather"
    /\ msg_size[0] = MAX_MSG_SIZE
    /\ total_time[0] = 3
    /\ bw[0] = Rat(2 * MAX_MSG_SIZE * N_REPEAT * 1000, 3)

\* --------------------------------------------------------------------- C24
\* C24: in the shipped build the loop variable of every process starts at
\* MIN_MSG_SIZE and changes only by doubling; it takes the eight sizes
\* MIN_MSG_SIZE * 2^k, k = 0..7, and then twice MAX_MSG_SIZE, with which the
\* process leaves the loop; it never wraps to a smaller value; rank 0 prints
\* one row for each of the eight sizes, in increasing order.
C24_SizeLoop ==
    /\ [](cfg = Shipped =>
            /\ \A r \in Ranks :
                  /\ pc[r] # "header" => msg_size[r] \in StepSizes \cup {2 * MAX_MSG_SIZE}
                  /\ msg_size[r] = 2 * MAX_MSG_SIZE => pc[r] \in {"loop", "finalize", "done"}
                  /\ pc[r] \in {"finalize", "done"} => msg_size[r] = 2 * MAX_MSG_SIZE
            /\ \A i \in 2 .. Len(out[0]) : out[0][i].size = MIN_MSG_SIZE * (2 ^ (i - 2))
            /\ pc[0] = "done" => Len(out[0]) = 9)
    /\ [][cfg = Shipped =>
            \A r \in Ranks :
                msg_size'[r] # msg_size[r] =>
                    \/ pc[r] = "header" /\ msg_size'[r] = MIN_MSG_SIZE
                    \/ pc[r] = "release" /\ msg_size'[r] = 2 * msg_size[r]]_vars

\* A process of the shipped build has left the loop with twice MAX_MSG_SIZE
\* after rank 0 has printed the header and eight rows.
C24_Witness ==
    /\ cfg = Shipped
    /\ world_size = FullP
    /\ pc[0] = "done" /\ msg_size[0] = 2 * MAX_MSG_SIZE
    /\ Len(out[0]) = 9

\* --------------------------------------------------------------------- C25
\* C25: in the shipped build no process ever aborts the job for the size
\* limit: inside the loop body the element count is at most 2^30 (1024 in the
\* unit of the model), which is below INT_MAX, the conversion to int leaves it
\* unchanged, and when rank 0 is done it has printed a row for every one of
\* the eight sizes.
C25_NoSizeAbort ==
    cfg = Shipped =>
        /\ job = "running" /\ err = << >>
        /\ \A r \in Ranks :
              pc[r] \notin {"header", "loop", "finalize", "done"} =>
                  /\ count(msg_size[r]) <= 1024
                  /\ 1024 < INT_MAX
                  /\ ~ TooLarge(count(msg_size[r]))
                  /\ mpi_count(count(msg_size[r])) = count(msg_size[r])
        /\ pc[0] = "done" =>
              {out[0][i].size : i \in 2 .. Len(out[0])} = StepSizes

\* A process of the shipped build has passed the size check of the largest
\* step with 2^30 elements.
C25_Witness ==
    /\ cfg = Shipped
    /\ \E r \in Ranks :
          /\ pc[r] = "alloc"
          /\ msg_size[r] = MAX_MSG_SIZE
          /\ count(msg_size[r]) = 1024

\* --------------------------------------------------------------------- C26
\* The sequence q without its i-th element.
Without(q, i) == SubSeq(q, 1, i - 1) \o SubSeq(q, i + 1, Len(q))

\* C26: in the two MPI programs, whenever the receive a process r has posted
\* completes, the message taken from the channel of prev(r) is the one prev(r)
\* sent to r in the same round of the same size step, with the element count
\* r expects; and while the receive is posted, the oldest message waiting for
\* r is that one.
C26_RoundsMatch ==
    /\ [](IsMPI =>
            \A r \in Ranks :
                (reqRecv[r] = "posted" /\ chan[prev(r, world_size)] # << >>) =>
                    LET m == Head(chan[prev(r, world_size)]) IN
                        /\ m.dst = r
                        /\ m.rnd = rep[r] /\ m.size = msg_size[r]
                        /\ m.cnt = mpi_count(count(msg_size[r])))
    /\ [][IsMPI =>
            \A r \in Ranks :
                (reqRecv[r] = "posted" /\ reqRecv'[r] = "done") =>
                    LET q == chan[prev(r, world_size)] IN
                        \E i \in 1 .. Len(q) :
                            /\ chan'[prev(r, world_size)] = Without(q, i)
                            /\ q[i].dst = r
                            /\ q[i].rnd = rep[r] /\ q[i].size = msg_size[r]
                            /\ q[i].cnt = mpi_count(count(msg_size[r]))]_vars

\* Two processes (next = prev): the receive of round k is posted while the
\* messages of rounds k and k + 1 from the other process are both waiting.
C26_Witness ==
    /\ IsMPI
    /\ world_size = 2
    /\ \E r \in Ranks :
          LET q == chan[prev(r, world_size)] IN
              /\ reqRecv[r] = "posted"
              /\ Len(q) = 2
              /\ q[1].rnd = rep[r] /\ q[2].rnd = rep[r] + 1

\* --------------------------------------------------------------------- C27
\* C27: a process that is about to read the first elements of its buffers,
\* or is between that read and the release of the buffers, or holds no
\* buffers, has no receive and no send outstanding: its two requests are
\* null, its stream is empty, every message it has sent has been taken or
\* copied by the transport, and all rounds of the step (warm-up included)
\* are complete.
C27_IdleAtVerifyAndFree ==
    \A r \in Ranks :
        /\ (pc[r] \in AfterRoundsPcs \/ d_send[r] = NULL) =>
               /\ reqRecv[r] = "null" /\ reqSend[r] = "null"
               /\ stream[r] = << >>
               /\ OutstandingSends(r) = 0
        /\ pc[r] \in AfterRoundsPcs =>
               Completed(r) = (IF IsMPI THEN 0 ELSE N_WARMUP) + N_REPEAT

\* rcclring with three processes: one is about to free its buffers after the
\* last step while another still has a group on its stream.
C27_Witness ==
    /\ variant = "rcclring"
    /\ world_size = MaxP
    /\ \E r, q \in Ranks :
          /\ pc[r] = "release" /\ d_send[r] # NULL
          /\ stream[q] # << >>

\* --------------------------------------------------------------------- C28
\* The processes placed on the node of rank r.
OnNodeOf(r) == {q \in Ranks : env.node[q] = env.node[r]}

\* C28 as stated: on every node that shows at least as many accelerators as
\* it has processes, two processes that have selected their accelerator have
\* selected different ones.
C28_DistinctDevices ==
    \A r, q \in Ranks :
        (/\ r # q
         /\ q \in OnNodeOf(r)
         /\ Cardinality(OnNodeOf(r)) <= env.devices
         /\ device[r] # NULL /\ device[q] # NULL)
            => device[r] # device[q]

\* The same for the two MPI programs only, which number the processes of a
\* node with the node-local communicator.
C28_MpiDistinctDevices == IsMPI => C28_DistinctDevices

\* --------------------------------------------------------------------- C29
RECURSIVE SumOfInput(_)
SumOfInput(n) == IF n = 0 THEN 0 ELSE h_data(n - 1) + SumOfInput(n - 1)

\* The iterated reduction ends with the sum of the input in gpu_sum.
ReductionExact == vr_pc = "done" => gpu_sum = SumOfInput(array_size)

\* C29 as stated: for every input size and every order of the blocks of a
\* launch, the reduction ends with the sum of all input elements, and no block
\* loads an element of d_partial that another block of the same launch has
\* already overwritten with its block sum.
C29_ReductionExactNoStaleRead ==
    /\ ReductionExact
    /\ ~ stale

\* --------------------------------------------------------------------- C30
\* The grids of the completed runs before the i-th.
EarlierGrids(i) == {past[j].grid : j \in 1 .. (i - 1)}

\* C30: in every sequence of completed runs that starts with no wisdom file,
\* a run loads wisdom exactly when an earlier run had the same three
\* dimensions, the file it loads was written by a run of its own grid, it
\* writes a file exactly when it has loaded none, and the files on disk are
\* one per grid that has been run, each under a name of its own.
C30_WisdomPerGrid ==
    /\ \A i \in 1 .. Len(past) :
          /\ past[i].loaded <=> past[i].grid \in EarlierGrids(i)
          /\ past[i].loaded => past[i].from = past[i].grid
          /\ past[i].wrote <=> ~ past[i].loaded
          /\ \E f \in files : f.name = past[i].file /\ f.by = past[i].grid
    /\ \A f, g \in files : f.name = g.name => f = g
    /\ Cardinality(files) = Cardinality({past[i].grid : i \in 1 .. Len(past)})

\* Three runs: grid (1, 11, 1) measures and writes, grid (11, 1, 1) finds no
\* file of its own and writes, and grid (1, 11, 1) again loads and does not
\* write.
C30_Witness ==
    /\ Len(past) = 3
    /\ past[1].grid = << 1, 11, 1 >> /\ past[1].wrote
    /\ past[2].grid = << 11, 1, 1 >> /\ ~ past[2].loaded /\ past[2].wrote
    /\ past[3].grid = << 1, 11, 1 >> /\ past[3].loaded /\ ~ past[3].wrote
    /\ Cardinality(files) = 2

====
